---- MODULE Spec2Model ----
(***************************************************************************)
(* Verification model of the qai-trader core: the Backtester position and  *)
(* equity state machine, the AdaptiveStrategy threshold loop, the          *)
(* DistributedValidator worker pool with its RedundancyChecker, and the    *)
(* signed audit log writer and verifier.                                   *)
(*                                                                         *)
(* Python floats are modelled by exact arithmetic: prices and pnl are      *)
(* integers, ratios are fractions <<numerator, denominator>> in lowest     *)
(* terms.  Rounding of binary floating point is outside the model.         *)
(***************************************************************************)
EXTENDS Integers, Sequences, FiniteSets, TLC

VARIABLES
  \* Backtester.run
  slippage, prices, equity, position, entry_price, trades, equity_curve,
  metrics, bt_pc, signals, bt_raised, caught, notified, effects, summaries,
  hook_calls, recorded,
  \* AdaptiveStrategy
  state, persistence_path, persistence_file, as_pc, as_trades, as_args,
  reloaded,
  \* DistributedValidator
  inputs, max_workers, audit_log, futures, results, summary, dv_audit, dv_pc,
  \* append_signed_audit called from several threads
  audit_file, w_pc, w_calls, w_returned,
  \* append_signed_audit / verify_audit_stream / verify_audit_log on one log
  env_key, log_exists, log_lines, written, tampered, report, sg_pc,
  \* RLAdaptiveOptimizer / RLContinuousAgent
  rl_kind, rl_args, rl_files, rl_state, rl_trace, rl_pc

bt_vars == <<slippage, prices, equity, position, entry_price, trades,
             equity_curve, metrics, bt_pc, signals, bt_raised, caught, notified,
             effects, summaries, hook_calls, recorded>>
as_vars == <<state, persistence_path, persistence_file, as_pc, as_trades,
             as_args, reloaded>>
dv_vars == <<inputs, max_workers, audit_log, futures, results, summary,
             dv_audit, dv_pc>>
wr_vars == <<audit_file, w_pc, w_calls, w_returned>>
sg_vars == <<env_key, log_exists, log_lines, written, tampered, report, sg_pc>>
rl_vars == <<rl_kind, rl_args, rl_files, rl_state, rl_trace, rl_pc>>
vars == <<bt_vars, as_vars, dv_vars, wr_vars, sg_vars, rl_vars>>

None == "None"

----------------------------------------------------------------------------
(* Exact fractions *)

Abs(x) == IF x < 0 THEN -x ELSE x

RECURSIVE GCD(_, _)
GCD(a, b) == IF b = 0 THEN a ELSE GCD(b, a % b)

\* n/d in lowest terms with a positive denominator
Frac(n, d) ==
  LET s == IF d < 0 THEN -1 ELSE 1
      g == GCD(Abs(n), Abs(d))
  IN  <<(s * n) \div g, (s * d) \div g>>

FracMul(a, b) == Frac(a[1] * b[1], a[2] * b[2])
FracAdd(a, b) == Frac(a[1] * b[2] + b[1] * a[2], a[2] * b[2])
FracSub(a, b) == Frac(a[1] * b[2] - b[1] * a[2], a[2] * b[2])
FracLt(a, b) == a[1] * b[2] < b[1] * a[2]
FracLe(a, b) == a[1] * b[2] <= b[1] * a[2]
FracMax(a, b) == IF FracLt(a, b) THEN b ELSE a
FracMin(a, b) == IF FracLt(b, a) THEN b ELSE a
FracDiv(a, b) == Frac(a[1] * b[2], a[2] * b[1])
FracAbs(a) == <<Abs(a[1]), a[2]>>
One == <<1, 1>>
Zero == <<0, 1>>

RECURSIVE SumSeq(_)
SumSeq(s) == IF s = <<>> THEN 0 ELSE Head(s) + SumSeq(Tail(s))

\* a setdefault that replaces the value of a key already present
SetOverwrite(m, k, v) == [x \in (DOMAIN m) \cup {k} |-> IF x = k THEN v ELSE m[x]]
\* a setdefault that drops a key already present
SetDropping(m, k, v) ==
  IF k \in DOMAIN m THEN [x \in (DOMAIN m) \ {k} |-> m[x]] ELSE m @@ (k :> v)
\* dict.setdefault(k, v)
SetDefault(m, k, v) == IF k \in DOMAIN m THEN m ELSE m @@ (k :> v)
\* dict[k] = v
SetItem(m, k, v) == [x \in (DOMAIN m) \cup {k} |-> IF x = k THEN v ELSE m[x]]

----------------------------------------------------------------------------
(* Backtester (src/qai/backtester.py) *)

MaxBars == 3
InitialCapital == 10
PriceValues == {1, 3}
Slippages == {0, 1}
Signals == {-1, 0, 1}
\* bars that rise from open to close and bars that fall
Bars == {bar \in [open : PriceValues, close : PriceValues] : bar.open # bar.close}

RECURSIVE MaxDrawdown(_, _, _)
\* the loop of summarize() over equity_curve[1:]: running peak, most
\* negative relative decline
MaxDrawdown(curve, peak, worst) ==
  IF curve = <<>> THEN worst
  ELSE LET value == Head(curve)
           pk == IF value > peak THEN value ELSE peak
           dd == IF pk # 0 THEN Frac(value - pk, pk) ELSE Zero
           w == IF pk # 0 /\ FracLt(dd, worst) THEN dd ELSE worst
       IN  MaxDrawdown(Tail(curve), pk, w)

RECURSIVE Returns(_, _)
\* per-step relative returns, skipped where the previous sample is 0
Returns(curve, prev) ==
  IF curve = <<>> THEN <<>>
  ELSE LET value == Head(curve)
           rest == Returns(Tail(curve), value)
       IN  IF prev # 0 THEN <<Frac(value - prev, prev)>> \o rest ELSE rest

\* BacktestResult.summarize(): every metric is inserted only if absent.
\* sharpe_ratio is a function of the return series alone; the series is
\* kept as its value.
summarize(tr, curve, m) ==
  LET wins == Cardinality({i \in DOMAIN tr : tr[i].pnl > 0})
      losses == Cardinality({i \in DOMAIN tr : tr[i].pnl <= 0})
      total == IF Len(tr) = 0 THEN 1 ELSE Len(tr)
      m1 == SetDefault(m, "total_trades", Len(tr))
      m2 == SetDefault(m1, "wins", wins)
      m3 == SetDefault(m2, "losses", losses)
      m4 == SetDefault(m3, "win_rate", Frac(wins, total))
      m5 == IF curve # <<>> THEN SetDefault(m4, "ending_equity", curve[Len(curve)])
            ELSE m4
      m6 == IF curve # <<>>
            THEN SetDefault(m5, "max_drawdown",
                            FracAbs(MaxDrawdown(Tail(curve), curve[1], Zero)))
            ELSE m5
      rets == IF curve # <<>> THEN Returns(Tail(curve), curve[1]) ELSE <<>>
      m7 == IF rets # <<>> THEN SetDefault(m6, "sharpe_ratio", rets) ELSE m6
      pnls == [i \in DOMAIN tr |-> tr[i].pnl]
      m8 == IF tr # <<>>
            THEN SetDefault(m7, "avg_trade_pnl", Frac(SumSeq(pnls), Len(tr)))
            ELSE SetDefault(m7, "avg_trade_pnl", Zero)
  IN  m8

\* the trade record built at a close
Trade(idx, dir, entry, exit, slip) ==
  [index |-> idx, direction |-> dir, entry |-> entry, exit |-> exit,
   pnl |-> (exit - entry) * dir - slip]

\* equity += pnl, with pnl the trade's pnl after slippage
CreditNoSlippage(eq, trade) == eq + (trade.exit - trade.entry) * trade.direction
Credit(eq, trade) == eq + trade.pnl

\* an exit rule that closes on a flat signal only
ExitsOnFlatOnly(pos, signal) == pos # 0 /\ signal = 0
\* the exit rule: position != 0 and signal != position
SignalExits(pos, signal) == pos # 0 /\ signal # pos

\* an entry rule that never goes short
EntersLongOnly(pos, signal) == pos = 0 /\ signal = 1
\* the entry rule: position == 0 and signal != 0, after the exit rule
SignalEnters(pos, signal) == pos = 0 /\ signal # 0

\* a forced close at the last bar's open
ForcedExitAtOpen(bar) == bar.open
\* the forced close exits at prices[-1]["close"]
ForcedExitPrice(bar) == bar.close

\* a forced close that appends a sample of its own
AppendSample(curve, eq) == Append(curve, eq)
\* result.equity_curve[-1] = equity
OverwriteLast(curve, eq) == [curve EXCEPT ![Len(curve)] = eq]

EmptyMap == [k \in {} |-> 0]

\* what the strategy may return, and the bars the caller may pass
StrategyReturns == Signals \cup {2}
BadBars == {[open |-> 1]}
BarInputs == Bars \cup BadBars

\* {"open", "close"} <= bar.keys()
BarIsValid(bar) == {"open", "close"} \subseteq DOMAIN bar

\* a check that lets every value pass
SignalAcceptedAny(signal) == TRUE
\* signal in (-1, 0, 1)
SignalAccepted(signal) == signal \in Signals

\* the calls run makes into the objects it was given.  Those it makes
\* inside try/except, and those it makes bare
GuardedCalls == {"on_trade_close", "append_signed_audit", "on_session_end",
                 "log_update", "end_episode", "finalize"}
BareCalls == {"rl_agent.observe_trade", "adaptive_optimizer.observe_trade",
              "record_equity", "save_run"}
\* one callee at most raises in a step; every object is attached
LoopFailures == {None, "on_trade_close", "rl_agent.observe_trade",
                 "adaptive_optimizer.observe_trade", "record_equity"}
EndFailures == (GuardedCalls \cup BareCalls \cup {None}) \ {"record_equity"}

\* _notify_trade_close: the strategy's hook inside try/except
_notify_trade_close(failed, fail) ==
  IF fail = "on_trade_close" THEN failed \cup {fail} ELSE failed

\* the observe_trade calls that follow _notify_trade_close at a close
ObserveTradeRaises(fail) ==
  fail \in {"rl_agent.observe_trade", "adaptive_optimizer.observe_trade"}

\* a guarded call at the end of run: a failure is logged
GuardedCall(failed, name, fail) == IF fail = name THEN failed \cup {name} ELSE failed

\* the hooks of a close, in the order run calls them once the trade is
\* appended and equity updated
CloseHookOrder == <<"on_trade_close", "rl_agent.observe_trade",
                    "adaptive_optimizer.observe_trade">>
\* the close hooks that get called: a bare observe_trade that raises ends
\* run before the hook after it
HooksCalled(fail) ==
  IF fail = "rl_agent.observe_trade" THEN SubSeq(CloseHookOrder, 1, 2)
  ELSE CloseHookOrder
\* the calls made for trade number k after `bars` calls of the strategy
CloseHookCalls(fail, k, bars) ==
  [i \in 1..Len(HooksCalled(fail)) |->
     [hook |-> HooksCalled(fail)[i], trade |-> k, bars |-> bars]]
\* the hooks at the end of run, in the order of the code
EndHookOrder == <<"on_session_end", "log_update", "end_episode", "finalize">>
EndHookCalls(k, bars) ==
  [i \in 1..Len(EndHookOrder) |->
     [hook |-> EndHookOrder[i], trade |-> k, bars |-> bars]]

\* a forced close that hands its equity to AdaptiveMetrics as well
RecordedAgain(samples, eq) == OverwriteLast(samples, eq)
\* the forced close calls no record_equity
RecordedAtForcedClose(samples, eq) == samples

NoEffects == [args |-> [saving |-> FALSE, audit |-> FALSE], saved |-> FALSE, audit_entries |-> <<>>,
              end_hooks |-> <<>>]

BtInit ==
  /\ slippage \in Slippages
  /\ prices = <<>>
  /\ equity = InitialCapital
  /\ position = 0
  /\ entry_price = 0
  /\ trades = <<>>
  /\ equity_curve = <<>>
  /\ metrics = EmptyMap
  /\ bt_pc = "start"
  /\ signals = <<>>
  /\ bt_raised = None
  /\ caught = {}
  /\ notified = 0
  /\ effects = NoEffects
  /\ summaries = <<>>
  /\ hook_calls = <<>>
  /\ recorded = <<>>

BtIdle ==
  /\ slippage = 0
  /\ prices = <<>>
  /\ equity = InitialCapital
  /\ position = 0
  /\ entry_price = 0
  /\ trades = <<>>
  /\ equity_curve = <<>>
  /\ metrics = EmptyMap
  /\ bt_pc = "idle"
  /\ signals = <<>>
  /\ bt_raised = None
  /\ caught = {}
  /\ notified = 0
  /\ effects = NoEffects
  /\ summaries = <<>>
  /\ hook_calls = <<>>
  /\ recorded = <<>>

\* run up to the loop: the first equity sample handed to AdaptiveMetrics
BtStart ==
  /\ UNCHANGED <<as_vars, dv_vars, wr_vars, sg_vars, rl_vars>>
  /\ bt_pc = "start"
  /\ \E fail \in {None, "record_equity"} :
       IF fail = "record_equity"
       THEN bt_pc' = "raised" /\ bt_raised' = fail /\ UNCHANGED recorded
       ELSE /\ bt_pc' = "loop"
            /\ recorded' = Append(recorded, InitialCapital)
            /\ UNCHANGED bt_raised
  /\ UNCHANGED <<slippage, prices, equity, position, entry_price, trades,
                 equity_curve, metrics, signals, caught, notified, effects,
                 summaries, hook_calls>>

\* one iteration of the loop over prices: the bar check, the strategy's
\* signal and its check, the exit rule with its hooks, the entry rule, the
\* equity sample
BtBar ==
  /\ UNCHANGED <<as_vars, dv_vars, wr_vars, sg_vars, rl_vars>>
  /\ bt_pc = "loop"
  /\ Len(prices) < MaxBars
  /\ \E bar \in BarInputs, signal \in StrategyReturns, fail \in LoopFailures :
       LET idx == Len(prices)
           closing == SignalExits(position, signal)
           trade == Trade(idx, position, entry_price, bar.open, slippage)
           eq == IF closing THEN Credit(equity, trade) ELSE equity
           pos == IF closing THEN 0 ELSE position
           opening == SignalEnters(pos, signal)
       IN  /\ prices' = Append(prices, bar)
           /\ IF ~BarIsValid(bar)
              THEN /\ bt_pc' = "raised"
                   /\ bt_raised' = "ValueError"
                   /\ UNCHANGED <<signals, equity, position, entry_price, trades,
                                  equity_curve, caught, notified, hook_calls,
                                  recorded>>
              ELSE IF ~SignalAccepted(signal)
              THEN /\ signals' = Append(signals, signal)
                   /\ bt_pc' = "raised"
                   /\ bt_raised' = "ValueError"
                   /\ UNCHANGED <<equity, position, entry_price, trades,
                                  equity_curve, caught, notified, hook_calls,
                                  recorded>>
              ELSE IF closing /\ ObserveTradeRaises(fail)
              THEN /\ signals' = Append(signals, signal)
                   /\ trades' = Append(trades, trade)
                   /\ equity' = eq
                   /\ notified' = notified + 1
                   /\ hook_calls' = hook_calls \o
                        CloseHookCalls(fail, Len(trades) + 1, Len(signals) + 1)
                   /\ bt_pc' = "raised"
                   /\ bt_raised' = fail
                   /\ UNCHANGED <<position, entry_price, equity_curve, caught,
                                  recorded>>
              ELSE /\ signals' = Append(signals, signal)
                   /\ trades' = IF closing THEN Append(trades, trade) ELSE trades
                   /\ equity' = eq
                   /\ caught' = IF closing THEN _notify_trade_close(caught, fail)
                                ELSE caught
                   /\ notified' = IF closing THEN notified + 1 ELSE notified
                   /\ hook_calls' =
                        IF closing
                        THEN hook_calls \o
                             CloseHookCalls(fail, Len(trades) + 1, Len(signals) + 1)
                        ELSE hook_calls
                   /\ position' = IF opening THEN signal ELSE pos
                   /\ entry_price' = IF opening THEN bar.open ELSE entry_price
                   /\ equity_curve' = Append(equity_curve, eq)
                   /\ IF fail = "record_equity"
                      THEN bt_pc' = "raised" /\ bt_raised' = fail
                           /\ UNCHANGED recorded
                      ELSE /\ recorded' = Append(recorded, eq)
                           /\ UNCHANGED <<bt_pc, bt_raised>>
  /\ UNCHANGED <<slippage, metrics, effects, summaries>>

\* after the loop: the forced close at the last bar's close with its hooks,
\* the three metrics set by run, summarize(), the datastore, the audit
\* entry, the end-of-run hooks
BtFinish ==
  /\ UNCHANGED <<as_vars, dv_vars, wr_vars, sg_vars, rl_vars>>
  /\ bt_pc = "loop"
  /\ \E fail \in EndFailures, datastore \in BOOLEAN, audit \in BOOLEAN :
     \E session_id \in (IF datastore THEN BOOLEAN ELSE {FALSE}) :
       LET forced == position # 0
           last == prices[Len(prices)]
           trade == Trade(Len(prices) - 1, position, entry_price,
                          ForcedExitPrice(last), slippage)
           eq == IF forced THEN Credit(equity, trade) ELSE equity
           tr == IF forced THEN Append(trades, trade) ELSE trades
           curve == IF forced THEN OverwriteLast(equity_curve, eq) ELSE equity_curve
           m1 == SetItem(metrics, "starting_equity", InitialCapital)
           m2 == SetItem(m1, "ending_equity", eq)
           m3 == SetItem(m2, "net_return", FracSub(Frac(eq, InitialCapital), One))
           m4 == summarize(tr, curve, m3)
           saving == datastore /\ session_id
           args == [saving |-> saving, audit |-> audit]
           c1 == IF forced THEN _notify_trade_close(caught, fail) ELSE caught
           c2 == IF audit THEN GuardedCall(c1, "append_signed_audit", fail) ELSE c1
           c3 == GuardedCall(c2, "on_session_end", fail)
           c4 == GuardedCall(c3, "log_update", fail)
           c5 == GuardedCall(c4, "end_episode", fail)
           c6 == GuardedCall(c5, "finalize", fail)
           entry == [total_trades |-> Len(tr), net_return |-> m4["net_return"],
                     datastore_path |-> saving]
           closes == IF forced
                     THEN hook_calls \o CloseHookCalls(fail, Len(tr), Len(signals))
                     ELSE hook_calls
       IN  /\ equity' = eq
           /\ recorded' = IF forced THEN RecordedAtForcedClose(recorded, eq)
                          ELSE recorded
           /\ trades' = tr
           /\ equity_curve' = curve
           /\ notified' = IF forced THEN notified + 1 ELSE notified
           /\ IF forced /\ ObserveTradeRaises(fail)
              THEN /\ bt_pc' = "raised"
                   /\ bt_raised' = fail
                   /\ hook_calls' = closes
                   /\ UNCHANGED <<metrics, caught, effects>>
              ELSE IF saving /\ fail = "save_run"
              THEN /\ bt_pc' = "raised"
                   /\ bt_raised' = fail
                   /\ metrics' = m4
                   /\ caught' = c1
                   /\ hook_calls' = closes
                   /\ effects' = [NoEffects EXCEPT !.args = args]
              ELSE /\ bt_pc' = "done"
                   /\ metrics' = summarize(tr, curve, m4)
                   /\ caught' = c6
                   /\ hook_calls' = closes \o EndHookCalls(Len(tr), Len(signals))
                   /\ effects' =
                        [args |-> args, saved |-> saving,
                         audit_entries |->
                           IF audit /\ fail # "append_signed_audit"
                           THEN <<entry>> ELSE <<>>,
                         end_hooks |-> EndHookOrder]
                   /\ UNCHANGED bt_raised
  /\ UNCHANGED <<slippage, prices, position, entry_price, signals, summaries>>

BtNext == (BtStart \/ BtBar \/ BtFinish)

----------------------------------------------------------------------------
(* A BacktestResult in the hands of a caller: add_trade, samples appended
   to equity_curve, metrics seeded before summarize() is called *)

\* calls of summarize(); as many trades and samples at most
MaxCalls == 2
ResultTrades == {Trade(0, 1, 1, 3, 0), Trade(0, 1, 3, 1, 0)}
Samples == {0, 10}
\* metrics a caller has put into the map before the first summarize()
Seeds == [wins |-> 99, ending_equity |-> 99, max_drawdown |-> <<9, 1>>]
SeedMaps == {[k \in ks |-> Seeds[k]] : ks \in SUBSET (DOMAIN Seeds)}

SmInit ==
  /\ slippage = 0
  /\ prices = <<>>
  /\ equity = InitialCapital
  /\ position = 0
  /\ entry_price = 0
  /\ trades = <<>>
  /\ equity_curve = <<>>
  /\ metrics \in SeedMaps
  /\ bt_pc = "result"
  /\ signals = <<>>
  /\ bt_raised = None
  /\ caught = {}
  /\ notified = 0
  /\ effects = NoEffects
  /\ summaries = <<>>
  /\ hook_calls = <<>>
  /\ recorded = <<>>

\* result.add_trade(trade)
SmAddTrade ==
  /\ UNCHANGED <<as_vars, dv_vars, wr_vars, sg_vars, rl_vars>>
  /\ bt_pc = "result"
  /\ Len(trades) < MaxCalls
  /\ \E trade \in ResultTrades : trades' = Append(trades, trade)
  /\ UNCHANGED <<slippage, prices, equity, position, entry_price, equity_curve,
                 metrics, bt_pc, signals, bt_raised, caught, notified, effects,
                 summaries, hook_calls, recorded>>

\* result.equity_curve.append(value)
SmAppendSample ==
  /\ UNCHANGED <<as_vars, dv_vars, wr_vars, sg_vars, rl_vars>>
  /\ bt_pc = "result"
  /\ Len(equity_curve) < MaxCalls
  /\ \E value \in Samples : equity_curve' = Append(equity_curve, value)
  /\ UNCHANGED <<slippage, prices, equity, position, entry_price, trades,
                 metrics, bt_pc, signals, bt_raised, caught, notified, effects,
                 summaries, hook_calls, recorded>>

\* result.summarize(): the map is filled in place and returned
SmSummarize ==
  /\ UNCHANGED <<as_vars, dv_vars, wr_vars, sg_vars, rl_vars>>
  /\ bt_pc = "result"
  /\ Len(summaries) < MaxCalls
  /\ metrics' = summarize(trades, equity_curve, metrics)
  /\ summaries' = Append(summaries,
                         [before |-> metrics, after |-> metrics',
                          trades |-> trades, equity_curve |-> equity_curve])
  /\ UNCHANGED <<slippage, prices, equity, position, entry_price, trades,
                 equity_curve, bt_pc, signals, bt_raised, caught, notified,
                 effects, hook_calls, recorded>>

SmNext == (SmAddTrade \/ SmAppendSample \/ SmSummarize)

----------------------------------------------------------------------------
(* AdaptiveStrategy (src/qai/adaptive_strategy.py) *)

MaxTrades == 3
HistoryLimit == 20
\* 1e-6, the floor of |entry| in on_trade_close
EntryFloor == Frac(1, 1000000)

\* the persistence file: missing, text that is no JSON, the JSON text of a
\* value that is no object, or a JSON object
NoFile == [kind |-> "missing", data |-> <<>>]
Corrupt == [kind |-> "corrupt", data |-> <<>>]
ScalarFile == [kind |-> "scalar", data |-> <<>>]
JsonFile(data) == [kind |-> "json", data |-> data]
Unconstructed == [threshold |-> <<0, 1>>, learning_rate |-> <<0, 1>>,
                  min_threshold |-> <<0, 1>>, max_threshold |-> <<0, 1>>,
                  history |-> <<>>]
NoReload == [args |-> Unconstructed, state |-> Unconstructed]

\* a JSON value float() rejects where a number is expected
BadValue == <<>>
\* the history field of a file: a list of numbers, a list holding text, or
\* a value that is no list
JsonList(items) == [list |-> TRUE, floats |-> TRUE, items |-> items]
TextList == [list |-> TRUE, floats |-> FALSE, items |-> <<>>]
NotAList == [list |-> FALSE, floats |-> FALSE, items |-> <<>>]

\* constructor arguments tried, valid and invalid
ArgThresholds == {Frac(1, 1), Frac(3, 1), Frac(5, 1)}
ArgLearningRates == {Zero, Frac(1, 2), One}
ArgBounds == {<<Frac(2, 1), Frac(4, 1)>>, <<Frac(4, 1), Frac(2, 1)>>}
\* what a persistence file may hold: nothing, text that is no JSON, or JSON
\* with any values for the keys it carries
FileStates ==
  [threshold : ArgThresholds, learning_rate : {Frac(1, 2)},
   min_threshold : {Frac(2, 1), Frac(5, 1)}, max_threshold : {Frac(4, 1)},
   history : {JsonList(<<>>), JsonList(<<1>>)}]
MisshapenStates ==
  { [threshold |-> BadValue],
    [threshold |-> Frac(5, 1), learning_rate |-> BadValue],
    [threshold |-> Frac(5, 1), history |-> NotAList],
    [threshold |-> Frac(5, 1), history |-> TextList],
    [max_threshold |-> BadValue] }
FileContents ==
  {NoFile, Corrupt, ScalarFile}
    \cup {JsonFile(d) : d \in FileStates \cup MisshapenStates \cup {[threshold |-> Frac(5, 1)]}}
ClosePnls == {-1, 0, 1}
CloseEntries == {0, 1, 2}

Get(d, k, default) == IF k \in DOMAIN d THEN d[k] ELSE default

LastN(s, n) == IF Len(s) <= n THEN s ELSE SubSeq(s, Len(s) - n + 1, Len(s))

\* _load_state: text that is no JSON leaves the state alone; otherwise the
\* fields are assigned one after the other from the keys of the file, and
\* an exception of data.get or float() leaves the method with the fields
\* assigned so far
_load_state(st, file) ==
  IF file.kind = "corrupt" THEN [error |-> None, state |-> st]
  ELSE IF file.kind = "scalar" THEN [error |-> "AttributeError", state |-> st]
  ELSE LET data == file.data
           threshold == Get(data, "threshold", st.threshold)
           learning_rate == Get(data, "learning_rate", st.learning_rate)
           min_threshold == Get(data, "min_threshold", st.min_threshold)
           max_threshold == Get(data, "max_threshold", st.max_threshold)
           history == Get(data, "history", JsonList(<<>>))
           s1 == [st EXCEPT !.threshold = threshold]
           s2 == [s1 EXCEPT !.learning_rate = learning_rate]
           s3 == [s2 EXCEPT !.min_threshold = min_threshold]
           s4 == [s3 EXCEPT !.max_threshold = max_threshold]
       IN  IF threshold = BadValue THEN [error |-> "ValueError", state |-> st]
           ELSE IF learning_rate = BadValue THEN [error |-> "ValueError", state |-> s1]
           ELSE IF min_threshold = BadValue THEN [error |-> "ValueError", state |-> s2]
           ELSE IF max_threshold = BadValue THEN [error |-> "ValueError", state |-> s3]
           ELSE IF ~history.list THEN [error |-> None, state |-> s4]
           ELSE IF ~history.floats THEN [error |-> "ValueError", state |-> s4]
           ELSE [error |-> None,
                 state |-> [s4 EXCEPT !.history = LastN(history.items, HistoryLimit)]]

\* a payload written without its history
PersistWithoutHistory(st, path, file) ==
  IF path
  THEN JsonFile([threshold |-> st.threshold, learning_rate |-> st.learning_rate,
                 min_threshold |-> st.min_threshold,
                 max_threshold |-> st.max_threshold])
  ELSE file

\* the payload _persist_state writes
_persist_state(st, path, file) ==
  IF path
  THEN JsonFile([threshold |-> st.threshold, learning_rate |-> st.learning_rate,
                 min_threshold |-> st.min_threshold,
                 max_threshold |-> st.max_threshold,
                 history |-> JsonList(st.history)])
  ELSE file

\* the threshold rule of on_trade_close
AdaptThreshold(st, pnl, entry) ==
  LET direction == IF pnl > 0 THEN 1 ELSE IF pnl < 0 THEN -1 ELSE 0
      adjustment == FracMul(st.learning_rate,
                            FracDiv(<<Abs(pnl), 1>>,
                                    FracMax(<<Abs(entry), 1>>, EntryFloor)))
  IN  IF direction > 0
      THEN FracMax(st.min_threshold, FracMul(st.threshold, FracSub(One, adjustment)))
      ELSE IF direction < 0
      THEN FracMin(st.max_threshold, FracMul(st.threshold, FracAdd(One, adjustment)))
      ELSE st.threshold

\* the checks of __init__ on its arguments
ValidArgs(learning_rate, min_threshold, max_threshold) ==
  /\ FracLt(Zero, min_threshold) /\ FracLe(min_threshold, max_threshold)
  /\ FracLt(Zero, learning_rate) /\ FracLe(learning_rate, One)

AsInit ==
  /\ state = Unconstructed
  /\ persistence_path \in BOOLEAN
  /\ persistence_file \in (IF persistence_path THEN FileContents ELSE {NoFile})
  /\ as_pc = "new"
  /\ as_trades = 0
  /\ as_args = Unconstructed
  /\ reloaded = NoReload

AsIdle ==
  /\ state = Unconstructed
  /\ persistence_path = FALSE
  /\ persistence_file = NoFile
  /\ as_pc = "idle"
  /\ as_trades = 0
  /\ as_args = Unconstructed
  /\ reloaded = NoReload

\* __init__: argument validation, the AdaptiveState, the load of an existing
\* persistence file
AsConstruct ==
  /\ UNCHANGED <<bt_vars, dv_vars, wr_vars, sg_vars, rl_vars>>
  /\ as_pc = "new"
  /\ \E initial_threshold \in ArgThresholds, learning_rate \in ArgLearningRates,
        bounds \in ArgBounds :
       LET st == [threshold |-> initial_threshold, learning_rate |-> learning_rate,
                  min_threshold |-> bounds[1], max_threshold |-> bounds[2],
                  history |-> <<>>]
           loaded == _load_state(st, persistence_file)
       IN  IF ~ValidArgs(learning_rate, bounds[1], bounds[2])
           THEN /\ as_pc' = "ValueError"
                /\ UNCHANGED <<state, as_args>>
           ELSE IF persistence_path /\ persistence_file.kind # "missing"
           THEN /\ as_args' = st
                /\ state' = loaded.state
                /\ as_pc' = IF loaded.error = None THEN "ready" ELSE "load raised"
           ELSE /\ as_args' = st
                /\ state' = st
                /\ as_pc' = "ready"
  /\ UNCHANGED <<persistence_path, persistence_file, as_trades, reloaded>>

\* on_trade_close: history, threshold, persistence
AsOnTradeClose ==
  /\ UNCHANGED <<bt_vars, dv_vars, wr_vars, sg_vars, rl_vars>>
  /\ as_pc = "ready"
  /\ as_trades < MaxTrades
  /\ \E pnl \in ClosePnls, entry \in CloseEntries :
       LET st == [state EXCEPT
                    !.history = LastN(Append(state.history, pnl), HistoryLimit),
                    !.threshold = AdaptThreshold(state, pnl, entry)]
       IN  /\ state' = st
           /\ persistence_file' = _persist_state(st, persistence_path, persistence_file)
  /\ as_trades' = as_trades + 1
  /\ UNCHANGED <<persistence_path, as_pc, as_args, reloaded>>

\* on_session_end
AsOnSessionEnd ==
  /\ UNCHANGED <<bt_vars, dv_vars, wr_vars, sg_vars, rl_vars>>
  /\ as_pc = "ready"
  /\ persistence_file' = _persist_state(state, persistence_path, persistence_file)
  /\ UNCHANGED <<state, persistence_path, as_pc, as_trades, as_args, reloaded>>

\* a second AdaptiveStrategy is constructed on the same persistence path,
\* with arguments of its own
AsReconstruct ==
  /\ UNCHANGED <<bt_vars, dv_vars, wr_vars, sg_vars, rl_vars>>
  /\ as_pc = "ready"
  /\ persistence_path
  /\ persistence_file.kind # "missing"
  /\ \E initial_threshold \in ArgThresholds, learning_rate \in ArgLearningRates,
        bounds \in ArgBounds :
       LET st == [threshold |-> initial_threshold, learning_rate |-> learning_rate,
                  min_threshold |-> bounds[1], max_threshold |-> bounds[2],
                  history |-> <<>>]
           loaded == _load_state(st, persistence_file)
       IN  /\ ValidArgs(learning_rate, bounds[1], bounds[2])
           /\ reloaded' = [args |-> st, state |-> loaded.state]
           /\ as_pc' = IF loaded.error = None THEN "reloaded" ELSE "reload raised"
  /\ UNCHANGED <<state, persistence_path, persistence_file, as_trades, as_args>>

AsNext == (AsConstruct \/ AsOnTradeClose \/ AsOnSessionEnd \/ AsReconstruct)


----------------------------------------------------------------------------
(* The RL components over their state files: RLAdaptiveOptimizer
   (src/qai/rl_adaptive_optimizer.py), RLContinuousAgent
   (src/qai/rl_continuous.py) and the OptimizerRL they wrap
   (src/qai/optimizer.py) *)

MaxUpdates == 3
MaxExperiences == 3

\* floats are fractions kept to two decimal places, every expression
\* rounded down once
Precision == 100
Float(q) == Frac((q[1] * Precision) \div q[2], Precision)
\* math.sqrt, to the same precision
Sqrt(q) ==
  LET k == CHOOSE k \in 0..(10 * Precision) :
             /\ k * k * q[2] <= q[1] * Precision * Precision
             /\ (k + 1) * (k + 1) * q[2] > q[1] * Precision * Precision
  IN  Frac(k, Precision)

RECURSIVE SumTo(_, _)
SumTo(ints, n) == IF n = 0 THEN 0 ELSE ints[n] + SumTo(ints, n - 1)
\* the sum of fractions of at most four decimal places, over one denominator
FracSum(s) ==
  LET scale == Precision * Precision
  IN  Frac(SumTo([i \in DOMAIN s |-> (s[i][1] * scale) \div s[i][2]], Len(s)), scale)

\* a JSON array where one is expected, or a value that cannot be iterated
JsonArray(items) == [iterable |-> TRUE, items |-> items]
NotIterable == [iterable |-> FALSE, items |-> <<>>]
\* items of a memory or replay file: a well-formed sample, or one whose
\* reward is no number
Features == {<<One>>}
Rewards == {Frac(-5, 1), Frac(5, 1)}
GoodItem == [state |-> <<One>>, reward |-> Frac(5, 1)]
BadItem == [state |-> <<One>>, reward |-> BadValue]

\* AdaptiveMemory's dataclass fields: the defaults, a small memory, and a
\* small memory that thins
DefaultLimits ==
  [base_capacity |-> 256, max_capacity |-> 1024, min_capacity |-> 64,
   decay |-> Frac(49, 50)]
SmallLimits ==
  [base_capacity |-> 2, max_capacity |-> 4, min_capacity |-> 1,
   decay |-> Frac(49, 50)]
ThinLimits ==
  [base_capacity |-> 2, max_capacity |-> 4, min_capacity |-> 1,
   decay |-> Frac(1, 2)]
\* a memory whose base capacity lies below its minimum
LowLimits ==
  [base_capacity |-> 1, max_capacity |-> 3, min_capacity |-> 2,
   decay |-> Frac(49, 50)]
\* a memory object handed to the constructor: its fields and its buffer
Memories ==
  {[limits |-> DefaultLimits, buffer |-> <<>>],
   [limits |-> SmallLimits, buffer |-> <<>>],
   [limits |-> SmallLimits, buffer |-> <<GoodItem>>],
   [limits |-> ThinLimits, buffer |-> <<GoodItem>>],
   [limits |-> LowLimits, buffer |-> <<GoodItem>>]}

MinLearningRate == Frac(1, 100)
MaxLearningRate == Frac(1, 2)
Smoothing == Frac(1, 4)
DefaultArgs ==
  [memory |-> [limits |-> DefaultLimits, buffer |-> <<>>],
   learning_rate |-> Frac(1, 10), max_buffer |-> 1024, audit_log |-> FALSE]
OptimizerArgs ==
  [memory : Memories, learning_rate : {Frac(1, 10), One}, max_buffer : {1024},
   audit_log : {FALSE}]
AgentArgs ==
  [memory : {DefaultArgs.memory}, learning_rate : {Frac(1, 10)},
   max_buffer : {1024, 2, 0}, audit_log : BOOLEAN]

\* a truncation that only thins
ThinOnly(limits, capacity, buffer) ==
  LET floor == FracMax(limits.decay, Frac(1, 10))
      step == floor[2] \div floor[1]
      keep == SelectSeq([i \in 1..Len(buffer) |-> i],
                        LAMBDA i : i = Len(buffer) \/ (i - 1) % step = 0)
  IN  IF Len(buffer) >= limits.min_capacity /\ FracLt(limits.decay, One)
      THEN [j \in 1..Len(keep) |-> buffer[keep[j]]] ELSE buffer
\* AdaptiveMemory._truncate: the oldest samples beyond the capacity go;
\* from min_capacity samples on and with decay < 1 only every
\* int(1 / max(decay, 0.1))-th sample and the last are kept
_truncate(limits, capacity, buffer) ==
  LET kept == LastN(buffer, capacity)
      floor == FracMax(limits.decay, Frac(1, 10))
      step == floor[2] \div floor[1]
      keep == SelectSeq([i \in 1..Len(kept) |-> i],
                        LAMBDA i : i = Len(kept) \/ (i - 1) % step = 0)
  IN  IF Len(kept) < limits.min_capacity THEN kept
      ELSE IF FracLt(limits.decay, One) THEN [j \in 1..Len(keep) |-> kept[keep[j]]]
      ELSE kept

\* AdaptiveMemory.summary
MemorySummary(buffer) ==
  IF buffer = <<>> THEN [count |-> 0, mean_reward |-> Zero, volatility |-> Zero]
  ELSE LET rewards == [i \in DOMAIN buffer |-> buffer[i].reward]
           count == Len(rewards)
           mean_reward == Float(FracDiv(FracSum(rewards), Frac(count, 1)))
           squares == [i \in DOMAIN rewards |->
                         Float(FracMul(FracSub(rewards[i], mean_reward),
                                       FracSub(rewards[i], mean_reward)))]
           variance == Float(FracDiv(FracSum(squares), Frac(count, 1)))
       IN  [count |-> count, mean_reward |-> mean_reward,
            volatility |-> Sqrt(variance)]

\* AdaptiveMemory.adapt_capacity
adapt_capacity(limits, capacity, buffer, volatility) ==
  LET scaled == FracMul(Frac(limits.base_capacity, 1),
                        FracAdd(One, FracMin(volatility, Frac(2, 1))))
      raw == scaled[1] \div scaled[2]
      capped == IF raw > limits.max_capacity THEN limits.max_capacity ELSE raw
      target == IF capped < limits.min_capacity THEN limits.min_capacity ELSE capped
  IN  IF target # capacity
      THEN [capacity |-> target, buffer |-> _truncate(limits, target, buffer)]
      ELSE [capacity |-> capacity, buffer |-> buffer]

\* OptimizerRL.policy over zip(weights, features)
policy(weights, features) ==
  LET n == IF Len(weights) < Len(features) THEN Len(weights) ELSE Len(features)
  IN  Float(FracSum([i \in 1..n |-> FracMul(weights[i], features[i])]))

\* a decay that forgets the floor
DecayUnfloored(epsilon) == Float(FracMul(epsilon, Frac(99, 100)))
\* OptimizerRL._decay_epsilon
_decay_epsilon(epsilon) ==
  FracMax(Frac(1, 100), Float(FracMul(epsilon, Frac(99, 100))))

\* OptimizerRL.train_step: weights move by learning_rate * advantage along
\* the features, epsilon decays towards its floor
train_step(learning_rate, weights, epsilon, features, reward) ==
  LET prediction == policy(weights, features)
      update == Float(FracMul(learning_rate, FracSub(reward, prediction)))
      n == IF Len(weights) < Len(features) THEN Len(weights) ELSE Len(features)
  IN  [weights |-> [i \in 1..n |-> Float(FracAdd(weights[i], FracMul(update, features[i])))],
       epsilon |-> _decay_epsilon(epsilon),
       prediction |-> FracAdd(prediction, update)]

\* RLAdaptiveOptimizer._target_learning_rate
_target_learning_rate(initial_lr, stats) ==
  LET tilt == Float(FracDiv(stats.mean_reward, FracAdd(One, stats.volatility)))
      target == Float(FracMul(initial_lr, FracAdd(One, FracMul(Frac(1, 2), tilt))))
  IN  FracMax(MinLearningRate, FracMin(MaxLearningRate, target))

\* RLAdaptiveOptimizer._apply_smoothing
_apply_smoothing(current, target) ==
  Float(FracAdd(FracMul(current, Smoothing), FracMul(target, FracSub(One, Smoothing))))

\* the fields after RLAdaptiveOptimizer.__init__'s own assignments: an empty
\* memory object is falsy and is replaced by a default AdaptiveMemory
NewOptimizer(args) ==
  LET memory == IF args.memory.buffer = <<>>
                THEN [limits |-> DefaultLimits, buffer |-> <<>>] ELSE args.memory
  IN  [learning_rate |-> args.learning_rate, epsilon |-> Frac(1, 10),
       gamma |-> Frac(19, 20), memory |-> memory.buffer,
       limits |-> memory.limits, capacity |-> memory.limits.base_capacity,
       weights |-> <<Zero>>, steps |-> 0]
OptimizerDefaults == NewOptimizer(DefaultArgs)
\* the fields after RLContinuousAgent.__init__'s own assignments
AgentDefaults ==
  [epsilon |-> Frac(1, 10), weights |-> JsonArray(<<Zero>>),
   optimizer_epsilon |-> Frac(1, 10), optimizer_weights |-> JsonArray(<<Zero>>),
   replay_buffer |-> <<>>]

\* the JSON objects that carry some of the keys of the full objects
Restrictions(full) ==
  UNION {{[k \in ks |-> d[k]] : ks \in SUBSET (DOMAIN d)} : d \in full}

OptimizerFileFields ==
  [learning_rate : {Frac(3, 10), BadValue},
   epsilon : {Frac(3, 10), BadValue},
   gamma : {Frac(1, 2), BadValue},
   memory : {JsonArray(<<GoodItem>>), JsonArray(<<GoodItem, BadItem>>), NotIterable}]
OptimizerFiles ==
  {NoFile, Corrupt, ScalarFile} \cup {JsonFile(d) : d \in Restrictions(OptimizerFileFields)}
AgentFileFields ==
  [epsilon : {Frac(3, 10), BadValue},
   weights : {JsonArray(<<Frac(5, 1)>>), NotIterable}]
AgentStateFiles ==
  {NoFile, Corrupt, ScalarFile} \cup {JsonFile(d) : d \in Restrictions(AgentFileFields)}
ReplayFiles ==
  {NoFile, Corrupt, ScalarFile, JsonFile(JsonArray(<<GoodItem>>)),
   JsonFile(JsonArray(<<GoodItem, BadItem>>))}

RECURSIVE GoodPrefix(_)
\* the items up to the first one that is no sample
GoodPrefix(items) ==
  IF items = <<>> \/ Head(items).reward = BadValue THEN <<>>
  ELSE <<Head(items)>> \o GoodPrefix(Tail(items))

\* AdaptiveMemory.load_snapshot: the buffer is cleared, then filled item by
\* item until one raises; a complete read ends with _truncate()
load_snapshot(limits, capacity, samples) ==
  IF ~samples.iterable THEN <<>>
  ELSE IF GoodPrefix(samples.items) # samples.items THEN GoodPrefix(samples.items)
  ELSE _truncate(limits, capacity, samples.items)

\* RLAdaptiveOptimizer.save_state: the payload written to memory_path
OptimizerPayload(st) ==
  [learning_rate |-> st.learning_rate, epsilon |-> st.epsilon, gamma |-> st.gamma,
   memory |-> JsonArray(st.memory)]

\* RLAdaptiveOptimizer._load_state: one try block around the parse and the
\* four assignments; an exception ends the load where it stands
LoadOptimizerState(st, file) ==
  IF file.kind # "json" THEN st
  ELSE LET data == file.data
           learning_rate == Get(data, "learning_rate", st.learning_rate)
           epsilon == Get(data, "epsilon", st.epsilon)
           gamma == Get(data, "gamma", st.gamma)
           s1 == [st EXCEPT !.learning_rate = learning_rate]
           s2 == [s1 EXCEPT !.epsilon = epsilon]
           s3 == [s2 EXCEPT !.gamma = gamma]
       IN  IF learning_rate = BadValue THEN st
           ELSE IF epsilon = BadValue THEN s1
           ELSE IF gamma = BadValue THEN s2
           ELSE [s3 EXCEPT !.memory =
                   load_snapshot(st.limits, st.capacity,
                                 Get(data, "memory", JsonArray(<<>>)))]

\* RLContinuousAgent._load_state, the state file: epsilon and weights are
\* assigned as they come, then list(weights) feeds the optimizer
LoadAgentState(st, file) ==
  IF file.kind # "json" THEN st
  ELSE LET data == file.data
           s2 == [st EXCEPT !.epsilon = Get(data, "epsilon", st.epsilon),
                            !.weights = Get(data, "weights", st.weights)]
       IN  IF ~s2.weights.iterable THEN s2
           ELSE [s2 EXCEPT !.optimizer_weights = s2.weights,
                           !.optimizer_epsilon = s2.epsilon]

\* RLContinuousAgent._truncate_buffer: replay_buffer[-max_buffer:] once the
\* buffer is longer than max_buffer, and -0 is 0, the whole list
_truncate_buffer(buffer, max_buffer) ==
  IF Len(buffer) > max_buffer
  THEN (IF max_buffer = 0 THEN buffer ELSE LastN(buffer, max_buffer))
  ELSE buffer

\* RLContinuousAgent._load_state, the replay file: the buffer is replaced
\* by the whole list, or emptied when the parse or an item fails; then it
\* is truncated
LoadReplayBuffer(st, file, max_buffer) ==
  IF file.kind = "missing" THEN st
  ELSE IF file.kind = "json" /\ file.data.iterable
          /\ GoodPrefix(file.data.items) = file.data.items
  THEN [st EXCEPT !.replay_buffer = _truncate_buffer(file.data.items, max_buffer)]
  ELSE [st EXCEPT !.replay_buffer = <<>>]

\* replay_buffer[-batch_size:], batch_size >= 0: -0 is 0, the whole list
Batch(buffer, batch_size) ==
  IF batch_size = 0 THEN buffer ELSE LastN(buffer, batch_size)

RECURSIVE TrainOn(_, _)
\* the loop of train(): one train_step per experience of the batch, at the
\* wrapped optimizer's default learning rate
TrainOn(opt, batch) ==
  IF batch = <<>> THEN opt
  ELSE LET step == train_step(Frac(1, 10), opt.weights, opt.epsilon,
                              Head(batch).state, Head(batch).reward)
       IN  TrainOn([weights |-> step.weights, epsilon |-> step.epsilon,
                    steps |-> Append(opt.steps, Head(batch))],
                   Tail(batch))

NoTrace == [op |-> "none"]

RlInit ==
  /\ rl_kind \in {"RLAdaptiveOptimizer", "RLContinuousAgent"}
  /\ rl_args = DefaultArgs
  /\ rl_files \in (IF rl_kind = "RLAdaptiveOptimizer"
                   THEN [state : OptimizerFiles, replay : {NoFile}, writes : {<<>>}, audit : {<<>>}]
                   ELSE [state : AgentStateFiles, replay : ReplayFiles, writes : {<<>>}, audit : {<<>>}])
  /\ rl_state = <<>>
  /\ rl_trace = NoTrace
  /\ rl_pc = "new"

RlIdle ==
  /\ rl_kind = None
  /\ rl_args = <<>>
  /\ rl_files = <<>>
  /\ rl_state = <<>>
  /\ rl_trace = NoTrace
  /\ rl_pc = "idle"

\* an RLAdaptiveOptimizer about to be constructed on a memory_path that
\* holds no file yet
OpInit ==
  /\ rl_kind = "RLAdaptiveOptimizer"
  /\ rl_args \in OptimizerArgs
  /\ rl_files = [state |-> NoFile, replay |-> NoFile, writes |-> <<>>, audit |-> <<>>]
  /\ rl_state = <<>>
  /\ rl_trace = NoTrace
  /\ rl_pc = "new"

\* an RLAdaptiveOptimizer with the default memory about to be constructed
\* for a long run
PsInit ==
  /\ rl_kind = "RLAdaptiveOptimizer"
  /\ rl_args \in [memory : {DefaultArgs.memory}, learning_rate : {Frac(1, 10), One},
                   max_buffer : {1024}, audit_log : {FALSE}]
  /\ rl_files = [state |-> NoFile, replay |-> NoFile, writes |-> <<>>, audit |-> <<>>]
  /\ rl_state = <<>>
  /\ rl_trace = NoTrace
  /\ rl_pc = "new"

\* an RLContinuousAgent about to be constructed over files that are absent
\* or were written by save_state
AgInit ==
  /\ rl_kind = "RLContinuousAgent"
  /\ rl_args \in AgentArgs
  /\ rl_files \in [state : {NoFile, JsonFile([epsilon |-> Frac(3, 10),
                                              weights |-> JsonArray(<<Frac(5, 1)>>)])},
                   replay : {NoFile, JsonFile(JsonArray(<<GoodItem>>))},
                   writes : {<<>>}, audit : {<<>>}]
  /\ rl_state = <<>>
  /\ rl_trace = NoTrace
  /\ rl_pc = "new"

\* RLAdaptiveOptimizer.__init__
RlConstructOptimizer ==
  /\ UNCHANGED <<bt_vars, as_vars, dv_vars, wr_vars, sg_vars>>
  /\ rl_pc = "new"
  /\ rl_kind = "RLAdaptiveOptimizer"
  /\ rl_state' = LoadOptimizerState(NewOptimizer(rl_args), rl_files.state)
  /\ rl_pc' = "constructed"
  /\ UNCHANGED <<rl_kind, rl_args, rl_files, rl_trace>>

\* RLContinuousAgent.__init__: with an audit log the wrapped OptimizerRL
\* writes its init entry, and the agent its continuous_init entry after
\* the load
RlConstructAgent ==
  /\ UNCHANGED <<bt_vars, as_vars, dv_vars, wr_vars, sg_vars>>
  /\ rl_pc = "new"
  /\ rl_kind = "RLContinuousAgent"
  /\ LET loaded == LoadReplayBuffer(LoadAgentState(AgentDefaults, rl_files.state),
                                    rl_files.replay, rl_args.max_buffer)
     IN  /\ rl_state' = loaded
         /\ rl_files' =
              IF rl_args.audit_log
              THEN [rl_files EXCEPT !.audit =
                      @ \o <<[event |-> "init", updates |-> 0, buffer_size |-> 0],
                             [event |-> "continuous_init", updates |-> 0,
                              buffer_size |-> Len(loaded.replay_buffer)]>>]
              ELSE rl_files
  /\ rl_pc' = "constructed"
  /\ UNCHANGED <<rl_kind, rl_args, rl_trace>>

\* update() saves when the instance's step count is a multiple of ten
SavesEveryStep(steps) == steps > 0
SavesAfter(steps) == steps % 10 = 0
\* the write_text calls on memory_path so far, each with its caller and the
\* instance's step count
Written(files, by, steps, payload) ==
  [files EXCEPT !.state = JsonFile(payload),
                !.writes = Append(@, [by |-> by, steps |-> steps])]
Finalizes(files) == Len(SelectSeq(files.writes, LAMBDA w : w.by = "finalize"))
MaxFinalizes == 1

\* RLAdaptiveOptimizer.update(state, reward), the reward drawn from rewards,
\* on an instance that has made fewer than cap updates; _initial_lr is the
\* constructor's learning rate
UpdateStep(rewards, cap) ==
  /\ UNCHANGED <<bt_vars, as_vars, dv_vars, wr_vars, sg_vars>>
  /\ rl_pc = "constructed"
  /\ rl_kind = "RLAdaptiveOptimizer"
  /\ rl_state.steps < cap
  /\ \E features \in Features, reward \in rewards :
       LET appended == _truncate(rl_state.limits, rl_state.capacity,
                                 Append(rl_state.memory,
                                        [state |-> features, reward |-> reward]))
           stats == MemorySummary(appended)
           adapted == adapt_capacity(rl_state.limits, rl_state.capacity, appended,
                                     stats.volatility)
           target_lr == _target_learning_rate(rl_args.learning_rate, stats)
           tuned_lr == _apply_smoothing(rl_state.learning_rate, target_lr)
           step == train_step(tuned_lr, rl_state.weights, rl_state.epsilon,
                              features, reward)
           updated == [rl_state EXCEPT !.memory = adapted.buffer,
                                       !.capacity = adapted.capacity,
                                       !.learning_rate = tuned_lr,
                                       !.weights = step.weights,
                                       !.epsilon = step.epsilon,
                                       !.steps = @ + 1]
           saves == SavesAfter(updated.steps)
       IN  /\ rl_state' = updated
           /\ rl_files' = IF saves
                          THEN Written(rl_files, "update", updated.steps,
                                       OptimizerPayload(updated))
                          ELSE rl_files
           /\ rl_trace' = [op |-> "update", current |-> rl_state.learning_rate,
                           target |-> target_lr, saved |-> saves,
                           volatility |-> stats.volatility,
                           before |-> rl_state.memory,
                           sample |-> [state |-> features, reward |-> reward]]
  /\ UNCHANGED <<rl_kind, rl_args, rl_pc>>

\* update() with rewards of either sign
RlUpdate == UpdateStep(Rewards, MaxUpdates)
\* update() over a long run of one reward
MaxSavedUpdates == 21
SteadyRewards == {Frac(5, 1)}
RlUpdateSteady == UpdateStep(SteadyRewards, MaxSavedUpdates)

\* RLAdaptiveOptimizer.finalize(): save_state()
RlFinalize ==
  /\ UNCHANGED <<bt_vars, as_vars, dv_vars, wr_vars, sg_vars>>
  /\ rl_pc = "constructed"
  /\ rl_kind = "RLAdaptiveOptimizer"
  /\ Finalizes(rl_files) < MaxFinalizes
  /\ rl_files' = Written(rl_files, "finalize", rl_state.steps, OptimizerPayload(rl_state))
  /\ rl_trace' = [op |-> "save"]
  /\ UNCHANGED <<rl_kind, rl_args, rl_state, rl_pc>>

\* a new RLAdaptiveOptimizer with the same arguments on the memory_path
\* that was just saved
RlReconstruct ==
  /\ UNCHANGED <<bt_vars, as_vars, dv_vars, wr_vars, sg_vars>>
  /\ rl_pc = "constructed"
  /\ rl_kind = "RLAdaptiveOptimizer"
  /\ rl_trace.op = "save"
  /\ rl_state' = LoadOptimizerState(NewOptimizer(rl_args), rl_files.state)
  /\ rl_trace' = [op |-> "reload", saved |-> rl_state]
  /\ rl_pc' = "reloaded"
  /\ UNCHANGED <<rl_kind, rl_args, rl_files>>

\* RLContinuousAgent.append_experience(state, reward)
RlAppendExperience ==
  /\ UNCHANGED <<bt_vars, as_vars, dv_vars, wr_vars, sg_vars>>
  /\ rl_pc = "constructed"
  /\ rl_kind = "RLContinuousAgent"
  /\ Len(rl_state.replay_buffer) < MaxExperiences
  /\ \E features \in Features, reward \in Rewards :
       rl_state' = [rl_state EXCEPT !.replay_buffer =
                      _truncate_buffer(Append(@, [state |-> features, reward |-> reward]),
                                       rl_args.max_buffer)]
  /\ rl_trace' = [op |-> "append", before |-> rl_state.replay_buffer]
  /\ UNCHANGED <<rl_kind, rl_args, rl_files, rl_pc>>

\* RLContinuousAgent.train(batch_size) on an agent whose optimizer holds
\* numbers
RlTrain ==
  /\ UNCHANGED <<bt_vars, as_vars, dv_vars, wr_vars, sg_vars>>
  /\ rl_pc = "constructed"
  /\ rl_kind = "RLContinuousAgent"
  /\ rl_state.optimizer_epsilon # BadValue
  /\ \E batch_size \in 0..(MaxExperiences + 1) :
       LET buffer == rl_state.replay_buffer
           trained == TrainOn([weights |-> rl_state.optimizer_weights.items,
                               epsilon |-> rl_state.optimizer_epsilon,
                               steps |-> <<>>],
                              Batch(buffer, batch_size))
       IN  IF buffer = <<>>
           THEN /\ rl_state' = rl_state
                /\ rl_trace' = [op |-> "train", batch_size |-> batch_size,
                                buffer |-> buffer, steps |-> <<>>,
                                report |-> [updates |-> 0]]
           ELSE /\ rl_state' = [rl_state EXCEPT
                                  !.optimizer_weights = JsonArray(trained.weights),
                                  !.optimizer_epsilon = trained.epsilon,
                                  !.epsilon = trained.epsilon,
                                  !.weights = JsonArray(trained.weights)]
                /\ rl_trace' = [op |-> "train", batch_size |-> batch_size,
                                buffer |-> buffer, steps |-> trained.steps,
                                report |-> [updates |-> Len(trained.steps)]]
  /\ rl_pc' = "trained"
  /\ UNCHANGED <<rl_kind, rl_args, rl_files>>

\* OptimizerRL on its own: the epsilon handed to the constructor, at, above
\* and below the floor of the decay
MaxTrainSteps == 10
Epsilons == {Frac(1, 10), Frac(1, 20), Frac(1, 100), Zero}
EpInit ==
  /\ rl_kind = "OptimizerRL"
  /\ rl_args \in [memory : {DefaultArgs.memory}, learning_rate : {Frac(1, 10)},
                   max_buffer : {1024}, audit_log : {FALSE},
                   epsilon : Epsilons]
  /\ rl_files = [state |-> NoFile, replay |-> NoFile, writes |-> <<>>, audit |-> <<>>]
  /\ rl_state = <<>>
  /\ rl_trace = NoTrace
  /\ rl_pc = "new"

\* OptimizerRL.__init__ with input_size 1
RlConstructOptimizerRL ==
  /\ UNCHANGED <<bt_vars, as_vars, dv_vars, wr_vars, sg_vars>>
  /\ rl_pc = "new"
  /\ rl_kind = "OptimizerRL"
  /\ rl_state' = [learning_rate |-> rl_args.learning_rate, weights |-> <<Zero>>,
                  epsilon |-> rl_args.epsilon, gamma |-> Frac(19, 20), steps |-> 0]
  /\ rl_pc' = "constructed"
  /\ UNCHANGED <<rl_kind, rl_args, rl_files, rl_trace>>

\* OptimizerRL.train_step(features, reward)
RlTrainStep ==
  /\ UNCHANGED <<bt_vars, as_vars, dv_vars, wr_vars, sg_vars>>
  /\ rl_pc = "constructed"
  /\ rl_kind = "OptimizerRL"
  /\ rl_state.steps < MaxTrainSteps
  /\ \E features \in Features, reward \in Rewards :
       LET step == train_step(rl_state.learning_rate, rl_state.weights,
                              rl_state.epsilon, features, reward)
       IN  /\ rl_state' = [rl_state EXCEPT !.weights = step.weights,
                                           !.epsilon = step.epsilon,
                                           !.steps = @ + 1]
           /\ rl_trace' = [op |-> "train_step", epsilon |-> rl_state.epsilon,
                           returned |-> step.prediction]
  /\ UNCHANGED <<rl_kind, rl_args, rl_files, rl_pc>>

\* an end_episode that reports whatever the training did
EmitsAlways(audit, log, updates) == audit /\ log
\* end_episode: the condition of the continuous_update entry
EmitsUpdate(audit, log, updates) == audit /\ log /\ updates > 0
\* train()'s default batch_size
DefaultBatchSize == 32

\* RLContinuousAgent.end_episode(audit=...): train(), save_state() over both
\* files, then the audit entry
RlEndEpisode ==
  /\ UNCHANGED <<bt_vars, as_vars, dv_vars, wr_vars, sg_vars>>
  /\ rl_pc = "constructed"
  /\ rl_kind = "RLContinuousAgent"
  /\ rl_state.optimizer_epsilon # BadValue
  /\ \E audit \in BOOLEAN :
       LET buffer == rl_state.replay_buffer
           trained == TrainOn([weights |-> rl_state.optimizer_weights.items,
                               epsilon |-> rl_state.optimizer_epsilon,
                               steps |-> <<>>],
                              Batch(buffer, DefaultBatchSize))
           updates == IF buffer = <<>> THEN 0 ELSE Len(trained.steps)
           after == IF buffer = <<>> THEN rl_state
                    ELSE [rl_state EXCEPT
                            !.optimizer_weights = JsonArray(trained.weights),
                            !.optimizer_epsilon = trained.epsilon,
                            !.epsilon = trained.epsilon,
                            !.weights = JsonArray(trained.weights)]
           saved == [rl_files EXCEPT
                       !.state = JsonFile([epsilon |-> after.optimizer_epsilon,
                                           weights |-> after.optimizer_weights]),
                       !.replay = JsonFile(JsonArray(after.replay_buffer)),
                       !.writes = @ \o <<[by |-> "state_path", steps |-> updates],
                                         [by |-> "replay_path", steps |-> updates]>>]
       IN  /\ rl_state' = after
           /\ rl_files' =
                IF EmitsUpdate(audit, rl_args.audit_log, updates)
                THEN [saved EXCEPT !.audit =
                        Append(@, [event |-> "continuous_update", updates |-> updates,
                                   buffer_size |-> Len(after.replay_buffer)])]
                ELSE saved
           /\ rl_trace' = [op |-> "end_episode", audit |-> audit,
                           report |-> [updates |-> updates],
                           files |-> rl_files]
  /\ rl_pc' = "ended"
  /\ UNCHANGED <<rl_kind, rl_args>>

RlNext == (RlConstructOptimizer \/ RlConstructAgent)
EpNext == (RlConstructOptimizerRL \/ RlTrainStep)
PsNext == (RlConstructOptimizer \/ RlUpdateSteady \/ RlFinalize)
OpNext == (RlConstructOptimizer \/ RlUpdate \/ RlFinalize \/ RlReconstruct)
AgNext == (RlConstructAgent \/ RlAppendExperience \/ RlTrain \/ RlEndEpisode)

----------------------------------------------------------------------------
(* DistributedValidator and RedundancyChecker
   (src/qai/distributed_validator.py) *)

MaxNodes == 3
NullHash == "null"
\* what a node callable does: return a payload, or raise
Payloads == {"p1", "p2"}
Raises == "raise"
Outcomes == Payloads \cup {Raises}
NodeIdChoices == {None, "node-1"}
DefaultNodeIds == <<"node-0", "node-1", "node-2", "node-3", "node-4", "node-5">>
Inputs == [node_id : NodeIdChoices, outcome : Outcomes]
\* a callable that never returns, and callables of which some never return
Hangs == "hang"
HangingInputs == [node_id : {None}, outcome : {"p1", Raises, Hangs}]
\* callables that all come to an end
FinishesAlways(outcome) == TRUE
\* the submitted callable returns or raises, unless it hangs
Finishes(outcome) == outcome # Hangs

\* SHA-256 of the canonical JSON of a payload: one digest per payload
_hash_payload(payload) == IF payload = "p1" THEN "sha-p1" ELSE "sha-p2"

\* str(entry.get("node_id") or f"node-{index}"), index counted from 0
NodeId(entry, index) ==
  IF entry.node_id = None THEN DefaultNodeIds[index + 1] ELSE entry.node_id

\* the loop body without its except clause: the exception leaves the batch
CollectResultPropagating(node_id, outcome) ==
  IF outcome = Raises
  THEN [propagates |-> TRUE,
        result |-> [node_id |-> node_id, status |-> "error",
                    payload |-> "error", hash |-> NullHash]]
  ELSE [propagates |-> FALSE,
        result |-> [node_id |-> node_id, status |-> "success",
                    payload |-> outcome, hash |-> _hash_payload(outcome)]]

\* the body of the as_completed loop up to the NodeResult: a raising
\* future is caught and becomes an error result
CollectResult(node_id, outcome) ==
  IF outcome = Raises
  THEN [propagates |-> FALSE,
        result |-> [node_id |-> node_id, status |-> "error",
                    payload |-> "error", hash |-> NullHash]]
  ELSE [propagates |-> FALSE,
        result |-> [node_id |-> node_id, status |-> "success",
                    payload |-> outcome, hash |-> _hash_payload(outcome)]]

\* Python dicts keep insertion order: a dict is a sequence of <<key, value>>
DictHas(d, k) == \E i \in DOMAIN d : d[i][1] = k
DictPut(d, k, v) ==
  IF DictHas(d, k)
  THEN [i \in DOMAIN d |-> IF d[i][1] = k THEN <<k, v>> ELSE d[i]]
  ELSE Append(d, <<k, v>>)
DictKeys(d) == [i \in DOMAIN d |-> d[i][1]]
DictValues(d) == {d[i][2] : i \in DOMAIN d}
Range(s) == {s[i] : i \in DOMAIN s}

RECURSIVE HashesOf(_)
\* {result.node_id: result.hash for result in results if result.hash is not None}
HashesOf(rs) ==
  IF rs = <<>> THEN <<>>
  ELSE LET r == rs[Len(rs)]
           d == HashesOf(SubSeq(rs, 1, Len(rs) - 1))
       IN  IF r.hash # NullHash THEN DictPut(d, r.node_id, r.hash) ELSE d

\* RedundancyChecker.evaluate
evaluate(rs) ==
  LET hashes == HashesOf(rs)
      unique_hashes == {v \in DictValues(hashes) : v # NullHash}
      failed_nodes == [i \in 1..Len(SelectSeq(rs, LAMBDA r : r.status # "success"))
                         |-> SelectSeq(rs, LAMBDA r : r.status # "success")[i].node_id]
      consistent == Cardinality(unique_hashes) <= 1 /\ failed_nodes = <<>>
      mismatched_nodes == IF Cardinality(unique_hashes) <= 1 THEN <<>>
                          ELSE DictKeys(hashes)
  IN  [consistent |-> consistent, hashes |-> hashes, unique_hashes |-> unique_hashes,
       failed_nodes |-> failed_nodes, mismatched_nodes |-> mismatched_nodes]

\* an _audit that writes no entry for a node's result
AuditWithoutNodeResults(log, configured, event, node_id) ==
  IF configured /\ event # "validation_node_result"
  THEN Append(log, [event |-> event, node_id |-> node_id]) ELSE log
\* DistributedValidator._audit: one entry when an audit log is configured
_audit(log, configured, event, node_id) ==
  IF configured THEN Append(log, [event |-> event, node_id |-> node_id]) ELSE log

\* max_workers or len(inputs) or 1; max_workers 0 stands for None as well
PoolSize == IF max_workers # 0 THEN max_workers
            ELSE IF Len(inputs) # 0 THEN Len(inputs) ELSE 1
Running == {i \in DOMAIN futures : futures[i] = "running"}
Queued == {i \in DOMAIN futures : futures[i] = "queued"}

DvInputSeqs == UNION {[1..n -> Inputs] : n \in 0..MaxNodes}

DvInit ==
  /\ inputs \in DvInputSeqs
  /\ max_workers \in {0, 1}
  /\ audit_log = TRUE
  /\ futures = <<>>
  /\ results = <<>>
  /\ summary = None
  /\ dv_audit = <<>>
  /\ dv_pc = "start"

\* a batch over callables of which some never return
DvHangInit ==
  /\ inputs \in UNION {[1..n -> HangingInputs] : n \in 0..MaxNodes}
  /\ max_workers \in {0, 1}
  /\ audit_log = TRUE
  /\ futures = <<>>
  /\ results = <<>>
  /\ summary = None
  /\ dv_audit = <<>>
  /\ dv_pc = "start"

DvIdle ==
  /\ inputs = <<>>
  /\ max_workers = 0
  /\ audit_log = FALSE
  /\ futures = <<>>
  /\ results = <<>>
  /\ summary = None
  /\ dv_audit = <<>>
  /\ dv_pc = "idle"

\* run_validation_batch up to the end of the submit loop
DvSubmit ==
  /\ UNCHANGED <<bt_vars, as_vars, wr_vars, sg_vars, rl_vars>>
  /\ dv_pc = "start"
  /\ results' = <<>>
  /\ IF inputs = <<>>
     THEN /\ dv_pc' = "returned"
          /\ UNCHANGED <<futures, dv_audit>>
     ELSE /\ dv_audit' = _audit(dv_audit, audit_log, "init", None)
          /\ futures' = [i \in DOMAIN inputs |-> "queued"]
          /\ dv_pc' = "collecting"
  /\ UNCHANGED <<inputs, max_workers, audit_log, summary>>

\* a pool thread takes the oldest queued work item
DvWorkerStart ==
  /\ UNCHANGED <<bt_vars, as_vars, wr_vars, sg_vars, rl_vars>>
  /\ dv_pc = "collecting"
  /\ Queued # {}
  /\ Cardinality(Running) < PoolSize
  /\ LET i == CHOOSE q \in Queued : \A o \in Queued : q <= o
     IN  futures' = [futures EXCEPT ![i] = "running"]
  /\ UNCHANGED <<inputs, max_workers, audit_log, results, summary, dv_audit, dv_pc>>

\* a running callable returns or raises: its future is done
DvWorkerFinish ==
  /\ UNCHANGED <<bt_vars, as_vars, wr_vars, sg_vars, rl_vars>>
  /\ dv_pc = "collecting"
  /\ \E i \in Running :
       /\ Finishes(inputs[i].outcome)
       /\ futures' = [futures EXCEPT ![i] = "done"]
  /\ UNCHANGED <<inputs, max_workers, audit_log, results, summary, dv_audit, dv_pc>>

\* one iteration of the as_completed loop
DvCollect ==
  /\ UNCHANGED <<bt_vars, as_vars, wr_vars, sg_vars, rl_vars>>
  /\ dv_pc = "collecting"
  /\ \E i \in DOMAIN futures :
       /\ futures[i] = "done"
       /\ LET node_id == NodeId(inputs[i], i - 1)
              got == CollectResult(node_id, inputs[i].outcome)
          IN  IF got.propagates
              THEN /\ dv_pc' = "raised"
                   /\ UNCHANGED <<futures, results, dv_audit>>
              ELSE /\ results' = Append(results, got.result)
                   /\ dv_audit' = _audit(dv_audit, audit_log,
                                         "validation_node_result", node_id)
                   /\ futures' = [futures EXCEPT ![i] = "collected"]
                   /\ dv_pc' = "collecting"
  /\ UNCHANGED <<inputs, max_workers, audit_log, summary>>

\* every future has been yielded: the pool shuts down, the batch returns
DvReturn ==
  /\ UNCHANGED <<bt_vars, as_vars, wr_vars, sg_vars, rl_vars>>
  /\ dv_pc = "collecting"
  /\ \A i \in DOMAIN futures : futures[i] = "collected"
  /\ dv_pc' = "returned"
  /\ UNCHANGED <<inputs, max_workers, audit_log, futures, results, summary, dv_audit>>

\* consolidate_results
DvConsolidate ==
  /\ UNCHANGED <<bt_vars, as_vars, wr_vars, sg_vars, rl_vars>>
  /\ dv_pc = "returned"
  /\ summary' = [verdict |-> evaluate(results),
                 node_count |-> Len(results),
                 successful_nodes |->
                   [i \in 1..Len(SelectSeq(results, LAMBDA r : r.status = "success"))
                      |-> SelectSeq(results, LAMBDA r : r.status = "success")[i].node_id]]
  /\ dv_audit' = _audit(dv_audit, audit_log, "validation_complete", None)
  /\ dv_pc' = "consolidated"
  /\ UNCHANGED <<inputs, max_workers, audit_log, futures, results>>

DvNext == (DvSubmit \/ DvWorkerStart \/ DvWorkerFinish \/ DvCollect \/ DvReturn
           \/ DvConsolidate)


----------------------------------------------------------------------------
(* append_signed_audit under concurrent callers
   (src/qai/logging_utils.py).  The file is the sequence of the pieces the
   operating system appended: a line reaches it whole, or, when a write is
   split, as a head and later a tail. *)

MaxWriters == 2
MaxAppends == 3
Writers == 1..MaxWriters

\* open("w") in place of open("a")
OpenTruncate(file) == <<>>

\* audit_path.open("a"): the content is kept, writes go to the end
OpenAppend(file) == file

Piece(t, k, part) == [by |-> t, call |-> k, part |-> part]
EndsLine(piece) == piece.part \in {"whole", "tail"}
Newlines(file) == Cardinality({i \in DOMAIN file : EndsLine(file[i])})
IsPrefix(a, b) == Len(a) <= Len(b) /\ SubSeq(b, 1, Len(a)) = a

WrInit ==
  /\ audit_file = <<>>
  /\ w_pc = [t \in Writers |-> "idle"]
  /\ w_calls = [t \in Writers |-> 0]
  /\ w_returned = 0

WrIdle ==
  /\ audit_file = <<>>
  /\ w_pc = <<>>
  /\ w_calls = <<>>
  /\ w_returned = 0

\* a thread enters append_signed_audit: the entry is built and signed, the
\* file is opened for append
WrOpen ==
  /\ UNCHANGED <<bt_vars, as_vars, dv_vars, sg_vars, rl_vars>>
  /\ \E t \in Writers :
       /\ w_pc[t] = "idle"
       /\ SumSeq(w_calls) < MaxAppends
       /\ w_calls' = [w_calls EXCEPT ![t] = @ + 1]
       /\ w_pc' = [w_pc EXCEPT ![t] = "open"]
       /\ audit_file' = OpenAppend(audit_file)
  /\ UNCHANGED w_returned

\* stream.write(line): the text stays in the stream's buffer
WrWrite ==
  /\ UNCHANGED <<bt_vars, as_vars, dv_vars, sg_vars, rl_vars>>
  /\ \E t \in Writers :
       /\ w_pc[t] = "open"
       /\ w_pc' = [w_pc EXCEPT ![t] = "buffered"]
  /\ UNCHANGED <<audit_file, w_calls, w_returned>>

\* stream.write(line) of a line the buffer cannot hold: its head is handed
\* to the operating system at once
WrWriteSplit ==
  /\ UNCHANGED <<bt_vars, as_vars, dv_vars, sg_vars, rl_vars>>
  /\ \E t \in Writers :
       /\ w_pc[t] = "open"
       /\ audit_file' = Append(audit_file, Piece(t, w_calls[t], "head"))
       /\ w_pc' = [w_pc EXCEPT ![t] = "partial"]
  /\ UNCHANGED <<w_calls, w_returned>>

\* leaving the with block: what is buffered is appended, the file is
\* closed, the call returns
WrClose ==
  /\ UNCHANGED <<bt_vars, as_vars, dv_vars, sg_vars, rl_vars>>
  /\ \E t \in Writers :
       /\ w_pc[t] \in {"buffered", "partial"}
       /\ audit_file' = Append(audit_file,
                               Piece(t, w_calls[t],
                                     IF w_pc[t] = "buffered" THEN "whole" ELSE "tail"))
       /\ w_pc' = [w_pc EXCEPT ![t] = "idle"]
  /\ w_returned' = w_returned + 1
  /\ UNCHANGED w_calls

WrNext == (WrOpen \/ WrWrite \/ WrWriteSplit \/ WrClose)

----------------------------------------------------------------------------
(* The signed entry: append_signed_audit (src/qai/logging_utils.py),
   verify_audit_stream (src/qai/hmac_utils.py) and verify_audit_log
   (scripts/recover_state.py).  A JSON object is a dict; a JSON value is a
   record tagged with its kind. *)

Str(s) == [kind |-> "str", v |-> <<s>>]
NullValue == [kind |-> "null", v |-> <<>>]
Num(n) == [kind |-> "num", v |-> <<n>>]
Obj(d) == [kind |-> "dict", v |-> d]
\* hexdigest of HMAC-SHA256: a string determined by the key and the message
HmacSha256(key, msg) == [kind |-> "str", v |-> <<key, msg>>]
IsDigest(value) == value.kind = "str" /\ Len(value.v) = 2

\* bool(value) as Python's `if value` / `not value` reads it
Truthy(value) ==
  CASE value.kind = "null" -> FALSE
    [] value.kind = "str" -> value.v # <<"">>
    [] value.kind = "num" -> value.v # <<0>>
    [] OTHER -> value.v # <<>>

\* every key name the model uses, in sorted order
SortedKeys == <<"hmac", "hostname", "pid", "platform", "session", "session_id",
                "ts", "user", "x", "y">>

DictGet(d, k) == LET i == CHOOSE j \in DOMAIN d : d[j][1] = k IN d[i][2]
DictDel(d, k) == SelectSeq(d, LAMBDA kv : kv[1] # k)
\* dict.setdefault(k, v)
DictSetDefault(d, k, v) == IF DictHas(d, k) THEN d ELSE Append(d, <<k, v>>)

\* one level of sort_keys=True
SortItems(d) ==
  LET present == SelectSeq(SortedKeys, LAMBDA k : DictHas(d, k))
  IN  [i \in DOMAIN present |-> <<present[i], DictGet(d, present[i])>>]

\* json.dumps(entry, sort_keys=True, ensure_ascii=False): keys sorted at
\* every level
CanonicalJson(d) ==
  LET top == SortItems(d)
  IN  [i \in DOMAIN top |->
         IF top[i][2].kind = "dict"
         THEN <<top[i][1], Obj(SortItems(top[i][2].v))>>
         ELSE top[i]]

\* _default_session_info()
DefaultSessionInfo ==
  <<<<"user", Str("me")>>, <<"hostname", Str("host")>>,
    <<"platform", Str("linux")>>, <<"pid", Num(1)>>>>

RECURSIVE FillDefaults(_, _)
\* for key, value in defaults.v(): d.setdefault(key, value)
FillDefaults(d, defaults) ==
  IF defaults = <<>> THEN d
  ELSE FillDefaults(DictSetDefault(d, Head(defaults)[1], Head(defaults)[2]),
                    Tail(defaults))

Now == Str("now")

\* the fallback consulted first
ResolveKeyEnvFirst(hmac_key, env) ==
  IF env # None /\ env # "" THEN env
  ELSE IF hmac_key # None /\ hmac_key # "" THEN hmac_key ELSE None

\* key = hmac_key or os.environ.get("QAI_HMAC_KEY")
ResolveKey(hmac_key, env) ==
  IF hmac_key # None /\ hmac_key # "" THEN hmac_key
  ELSE IF env # None /\ env # "" THEN env ELSE None

\* what the writer signs: the serialization of the entry as it stands
\* before the hmac field is set
SignedMessage(entry) == CanonicalJson(entry)

\* append_signed_audit up to entry["hmac"] = signature
BuildEntry(payload, session_id, hmac_key, env) ==
  LET e1 == IF session_id # None /\ session_id # ""
            THEN DictPut(payload, "session_id", Str(session_id)) ELSE payload
      e2 == DictSetDefault(e1, "ts", Now)
      e3 == DictSetDefault(e2, "session", Obj(<<>>))
      e4 == DictPut(e3, "session",
                    Obj(FillDefaults(DictGet(e3, "session").v, DefaultSessionInfo)))
      key == ResolveKey(hmac_key, env)
      signature == IF key # None THEN HmacSha256(key, SignedMessage(e4)) ELSE NullValue
  IN  DictPut(e4, "hmac", signature)

\* _normalize_entry / entry.pop("hmac")
_normalize_entry(entry) == DictDel(entry, "hmac")

\* the body of verify_audit_stream's loop for one entry
VerifyStreamEntry(entry, key) ==
  LET signature == IF DictHas(entry, "hmac") THEN DictGet(entry, "hmac") ELSE NullValue
      digest == HmacSha256(key, CanonicalJson(_normalize_entry(entry)))
  IN  IF ~Truthy(signature) THEN "MISSING_HMAC"
      ELSE IF signature.kind # "str" THEN "TypeError"
      ELSE IF signature # digest THEN "HMAC_MISMATCH"
      ELSE "verified"

\* the digest taken over the entry with its hmac field left in
VerifyLogEntryKeepHmac(entry, key) ==
  LET sig == IF DictHas(entry, "hmac") THEN DictGet(entry, "hmac") ELSE NullValue
      expected == HmacSha256(key, CanonicalJson(entry))
  IN  IF ~Truthy(sig) THEN "MISSING_HMAC"
      ELSE IF sig.kind # "str" THEN "VERIFICATION_ERROR"
      ELSE IF expected # sig THEN "HMAC_MISMATCH"
      ELSE "verified"

\* the body of verify_audit_log's loop for one parsed line
VerifyLogEntry(entry, key) ==
  LET sig == IF DictHas(entry, "hmac") THEN DictGet(entry, "hmac") ELSE NullValue
      rest == DictDel(entry, "hmac")
      expected == HmacSha256(key, CanonicalJson(rest))
  IN  IF ~Truthy(sig) THEN "MISSING_HMAC"
      ELSE IF sig.kind # "str" THEN "VERIFICATION_ERROR"
      ELSE IF expected # sig THEN "HMAC_MISMATCH"
      ELSE "verified"


\* a line of the file: the JSON text of a dict, text that is no JSON, the
\* JSON text of a value that is no dict, or nothing but white space
JsonLine(entry) == [kind |-> "json", entry |-> entry]
JunkLine == [kind |-> "junk", entry |-> <<>>]
ScalarLine == [kind |-> "scalar", entry |-> <<>>]
BlankLine == [kind |-> "blank", entry |-> <<>>]

\* the indexes of s that satisfy Test, in increasing order
IndexesWhere(s, Test(_)) == SelectSeq([i \in 1..Len(s) |-> i], Test)

\* verify_audit_stream over the entries: the outcome of every entry, and
\* whether the loop raised on one of them (entry.get on a value that is no
\* dict, compare_digest on a signature that is no string); the counts and
\* the failure records when it returned
verify_audit_stream(lines, key) ==
  LET outcomes == [i \in DOMAIN lines |->
                     IF lines[i].kind = "scalar" THEN "AttributeError"
                     ELSE VerifyStreamEntry(lines[i].entry, key)]
      raised == \E i \in DOMAIN lines : outcomes[i] \in {"TypeError", "AttributeError"}
      failed == IndexesWhere(lines, LAMBDA i : outcomes[i] # "verified")
  IN  [raised |-> raised, outcomes |-> outcomes,
       total |-> IF raised THEN 0 ELSE Len(lines),
       verified |-> IF raised THEN 0 ELSE Len(lines) - Len(failed),
       failures |-> IF raised THEN <<>>
                    ELSE [j \in DOMAIN failed |->
                            [index |-> failed[j] - 1, reason |-> outcomes[failed[j]]]]]

\* the entry verify_audit_file hands on for a line json.loads rejects
RawEntry == <<<<"raw", Str("text")>>, <<"error", Str("exc")>>, <<"hmac", NullValue>>>>

\* verify_audit_file: read_text on the path, blank lines skipped, every
\* other line parsed or replaced by its raw entry, then verify_audit_stream
verify_audit_file(exists, lines, key) ==
  LET kept == SelectSeq(lines, LAMBDA l : l.kind # "blank")
      entries == [i \in DOMAIN kept |->
                    IF kept[i].kind = "junk" THEN JsonLine(RawEntry) ELSE kept[i]]
      got == verify_audit_stream(entries, key)
  IN  IF ~exists
      THEN [raised |-> TRUE, total |-> 0, verified |-> 0, failed |-> 0,
            failures |-> <<>>]
      ELSE [raised |-> got.raised, total |-> got.total, verified |-> got.verified,
            failed |-> Len(got.failures), failures |-> got.failures]

\* verify_audit_log over the lines of an existing file: the outcome of every
\* line; entry.pop on a value that is no dict leaves the loop through the
\* outer except clause, which returns (0, 0, 1, failures so far)
verify_audit_log(lines, key) ==
  LET outcomes == [i \in DOMAIN lines |->
                     IF lines[i].kind = "blank" THEN "blank"
                     ELSE IF lines[i].kind = "junk" THEN "INVALID JSON"
                     ELSE IF lines[i].kind = "scalar" THEN "AttributeError"
                     ELSE VerifyLogEntry(lines[i].entry, key)]
      aborts == IndexesWhere(lines, LAMBDA i : outcomes[i] = "AttributeError")
      read == IF aborts = <<>> THEN Len(lines) ELSE aborts[1] - 1
      failed == IndexesWhere(lines,
                             LAMBDA i : i <= read /\ outcomes[i] \notin {"verified", "blank"})
      failures == [j \in DOMAIN failed |->
                     [line |-> failed[j], reason |-> outcomes[failed[j]]]]
      total == Len(IndexesWhere(lines, LAMBDA i : outcomes[i] # "blank"))
  IN  IF aborts # <<>>
      THEN [outcomes |-> outcomes, total |-> 0, verified |-> 0, failed |-> 1,
            failures |-> failures]
      ELSE [outcomes |-> outcomes, total |-> total,
            verified |-> total - Len(failed), failed |-> Len(failed),
            failures |-> failures]

\* verify_audit_log(key, path): a path that does not exist is an empty log
VerifyAuditLogPath(exists, lines, key) ==
  IF ~exists
  THEN [raised |-> FALSE, total |-> 0, verified |-> 0, failed |-> 0, failures |-> <<>>]
  ELSE LET got == verify_audit_log(lines, key)
       IN  [raised |-> FALSE, total |-> got.total, verified |-> got.verified,
            failed |-> got.failed, failures |-> got.failures]

\* inputs of append_signed_audit
SgPayloads ==
  { <<>>,
    <<<<"x", Str("u")>>>>,
    <<<<"x", Str("u")>>, <<"ts", Str("then")>>>>,
    <<<<"ts", Str("then")>>, <<"session_id", Str("s0")>>, <<"x", Str("u")>>>>,
    <<<<"x", Str("u")>>, <<"session", Obj(<<<<"user", Str("pre")>>>>)>>>>,
    <<<<"hmac", Str("old")>>, <<"x", Str("u")>>>>,
    <<<<"x", Str("u")>>, <<"hmac", NullValue>>>> }
SessionIds == {None, "", "s1"}
HmacKeys == {None, "", "k1"}
EnvKeys == {None, "", "k2"}
VerifyKeys == {"k1", "k2", "k3"}

\* edits made to a written line by somebody else than the writer
FieldMutations == {"change x", "remove ts", "add y", "change session.user",
                   "change hmac"}
HmacRemovals == {"remove hmac", "null hmac", "number hmac"}
OtherMutations == {"reorder", "garble"}
Mutations == FieldMutations \cup HmacRemovals \cup OtherMutations

Reverse(s) == [i \in DOMAIN s |-> s[Len(s) + 1 - i]]

Mutate(line, m) ==
  LET e == line.entry
  IN  CASE m = "change x" -> JsonLine(DictPut(e, "x", Str("tampered")))
        [] m = "remove ts" -> JsonLine(DictDel(e, "ts"))
        [] m = "add y" -> JsonLine(DictPut(e, "y", Str("new")))
        [] m = "change session.user" ->
             JsonLine(DictPut(e, "session",
                              Obj(DictPut(DictGet(e, "session").v, "user",
                                          Str("tampered")))))
        [] m = "change hmac" -> JsonLine(DictPut(e, "hmac", Str("forged")))
        [] m = "remove hmac" -> JsonLine(DictDel(e, "hmac"))
        [] m = "null hmac" -> JsonLine(DictPut(e, "hmac", NullValue))
        [] m = "number hmac" -> JsonLine(DictPut(e, "hmac", Num(7)))
        [] m = "reorder" -> JsonLine(Reverse(e))
        [] OTHER -> JunkLine

NoCall == [payload |-> <<>>, session_id |-> None, hmac_key |-> None, line |-> JunkLine]
NoReport == [key |-> None]

SgInit ==
  /\ env_key \in EnvKeys
  /\ log_exists = FALSE
  /\ log_lines = <<>>
  /\ written = NoCall
  /\ tampered = None
  /\ report = NoReport
  /\ sg_pc = "start"

SgIdle ==
  /\ env_key = None
  /\ log_exists = FALSE
  /\ log_lines = <<>>
  /\ written = NoCall
  /\ tampered = None
  /\ report = NoReport
  /\ sg_pc = "idle"

\* append_signed_audit, one call by one thread
SgAppend ==
  /\ UNCHANGED <<bt_vars, as_vars, dv_vars, wr_vars, rl_vars>>
  /\ sg_pc = "start"
  /\ \E payload \in SgPayloads, session_id \in SessionIds, hmac_key \in HmacKeys :
       LET line == JsonLine(BuildEntry(payload, session_id, hmac_key, env_key))
       IN  /\ log_exists' = TRUE
           /\ log_lines' = Append(OpenAppend(log_lines), line)
           /\ written' = [payload |-> payload, session_id |-> session_id,
                          hmac_key |-> hmac_key, line |-> line]
  /\ sg_pc' = "written"
  /\ UNCHANGED <<env_key, tampered, report>>

\* the line is edited in the file after it was written
SgTamper ==
  /\ UNCHANGED <<bt_vars, as_vars, dv_vars, wr_vars, rl_vars>>
  /\ sg_pc = "written"
  /\ \E m \in Mutations :
       /\ log_lines' = [log_lines EXCEPT ![1] = Mutate(@, m)]
       /\ tampered' = m
  /\ sg_pc' = "tampered"
  /\ UNCHANGED <<env_key, log_exists, written, report>>

\* both verifiers are run over the file with one key
SgVerify ==
  /\ UNCHANGED <<bt_vars, as_vars, dv_vars, wr_vars, rl_vars>>
  /\ sg_pc \in {"written", "tampered"}
  /\ \E key \in VerifyKeys :
       report' = [key |-> key,
                  stream |-> verify_audit_stream(
                               SelectSeq(log_lines, LAMBDA l : l.kind = "json"), key),
                  log |-> verify_audit_log(log_lines, key)]
  /\ sg_pc' = "verified"
  /\ UNCHANGED <<env_key, log_exists, log_lines, written, tampered>>

SgNext == (SgAppend \/ SgTamper \/ SgVerify)


----------------------------------------------------------------------------
(* Verification of an existing file: verify_audit_log
   (scripts/recover_state.py) and verify_audit_file (src/qai/hmac_utils.py)
   over whatever the path holds *)

MaxLines == 2
VfKeys == {"k1", "k2"}

\* an entry signed with "k1", and edits of it
SignedEntry == BuildEntry(<<<<"x", Str("u")>>>>, None, "k1", None)
VfEntries ==
  { SignedEntry,
    DictPut(SignedEntry, "x", Str("tampered")),
    DictDel(SignedEntry, "hmac"),
    DictPut(SignedEntry, "hmac", NullValue),
    DictPut(SignedEntry, "hmac", Num(7)) }
VfLines == {BlankLine, JunkLine, ScalarLine} \cup {JsonLine(e) : e \in VfEntries}
VfFiles == UNION {[1..n -> VfLines] : n \in 0..MaxLines}

VfInit ==
  /\ env_key = None
  /\ log_exists \in BOOLEAN
  /\ log_lines \in (IF log_exists THEN VfFiles ELSE {<<>>})
  /\ written = NoCall
  /\ tampered = None
  /\ report = NoReport
  /\ sg_pc = "file"

\* verify_audit_log(key, path)
VfVerifyLog ==
  /\ UNCHANGED <<bt_vars, as_vars, dv_vars, wr_vars, rl_vars>>
  /\ sg_pc = "file"
  /\ \E key \in VfKeys :
       report' = [key |-> key, entry_point |-> "verify_audit_log",
                  result |-> VerifyAuditLogPath(log_exists, log_lines, key)]
  /\ sg_pc' = "checked"
  /\ UNCHANGED <<env_key, log_exists, log_lines, written, tampered>>

\* verify_audit_file(path, key)
VfVerifyFile ==
  /\ UNCHANGED <<bt_vars, as_vars, dv_vars, wr_vars, rl_vars>>
  /\ sg_pc = "file"
  /\ \E key \in VfKeys :
       report' = [key |-> key, entry_point |-> "verify_audit_file",
                  result |-> verify_audit_file(log_exists, log_lines, key)]
  /\ sg_pc' = "checked"
  /\ UNCHANGED <<env_key, log_exists, log_lines, written, tampered>>

VfNext == (VfVerifyLog \/ VfVerifyFile)

----------------------------------------------------------------------------
(* Specifications: one per component, the other components at rest *)

InitBT == BtInit /\ AsIdle /\ DvIdle /\ WrIdle /\ SgIdle /\ RlIdle
InitAS == BtIdle /\ AsInit /\ DvIdle /\ WrIdle /\ SgIdle /\ RlIdle
InitDV == BtIdle /\ AsIdle /\ DvInit /\ WrIdle /\ SgIdle /\ RlIdle
InitWr == BtIdle /\ AsIdle /\ DvIdle /\ WrInit /\ SgIdle /\ RlIdle
InitSg == BtIdle /\ AsIdle /\ DvIdle /\ WrIdle /\ SgInit /\ RlIdle
InitSm == SmInit /\ AsIdle /\ DvIdle /\ WrIdle /\ SgIdle /\ RlIdle
InitRL == BtIdle /\ AsIdle /\ DvIdle /\ WrIdle /\ SgIdle /\ RlInit
InitVf == BtIdle /\ AsIdle /\ DvIdle /\ WrIdle /\ VfInit /\ RlIdle
InitOp == BtIdle /\ AsIdle /\ DvIdle /\ WrIdle /\ SgIdle /\ OpInit
InitAg == BtIdle /\ AsIdle /\ DvIdle /\ WrIdle /\ SgIdle /\ AgInit

SpecBT == InitBT /\ [][BtNext]_vars
SpecAS == InitAS /\ [][AsNext]_vars
SpecDV == InitDV /\ [][DvNext]_vars
SpecWr == InitWr /\ [][WrNext]_vars
SpecSg == InitSg /\ [][SgNext]_vars
SpecSm == InitSm /\ [][SmNext]_vars
SpecRL == InitRL /\ [][RlNext]_vars
SpecVf == InitVf /\ [][VfNext]_vars
SpecOp == InitOp /\ [][OpNext]_vars
SpecAg == InitAg /\ [][AgNext]_vars
InitHg == BtIdle /\ AsIdle /\ DvHangInit /\ WrIdle /\ SgIdle /\ RlIdle
\* the batch is called, the pool's threads run, callables that finish do
\* finish, and the collecting loop goes on
FairDV ==
  /\ InitHg /\ [][DvNext]_vars
  /\ WF_vars(DvSubmit) /\ WF_vars(DvWorkerStart) /\ WF_vars(DvWorkerFinish)
  /\ WF_vars(DvCollect) /\ WF_vars(DvReturn)
InitPs == BtIdle /\ AsIdle /\ DvIdle /\ WrIdle /\ SgIdle /\ PsInit
SpecPs == InitPs /\ [][PsNext]_vars
InitEp == BtIdle /\ AsIdle /\ DvIdle /\ WrIdle /\ SgIdle /\ EpInit
SpecEp == InitEp /\ [][EpNext]_vars
\* ENABLED <<RlTrainStep>>_vars, written out: a step always changes steps
TrainStepEnabled ==
  rl_kind = "OptimizerRL" /\ rl_pc = "constructed" /\ rl_state.steps < MaxTrainSteps
\* the caller constructs the optimizer and keeps training: weak fairness of
\* both actions, the one of RlTrainStep with its ENABLED written out
FairEp ==
  /\ InitEp /\ [][EpNext]_vars
  /\ WF_vars(RlConstructOptimizerRL)
  /\ ([]<>(~TrainStepEnabled) \/ []<><<RlTrainStep>>_vars)

Init == InitBT
Next == BtNext
Spec == SpecBT

----------------------------------------------------------------------------
(* Claims *)

TradePnls == [i \in DOMAIN trades |-> trades[i].pnl]

\* C1: when Backtester.run has returned, the pnl of all recorded trades
\* (the forced final close included) sums to ending_equity minus
\* starting_equity, and starting_equity is the initial capital.
C1_EquityAccounting ==
  bt_pc = "done" =>
    /\ SumSeq(TradePnls) = metrics["ending_equity"] - metrics["starting_equity"]
    /\ metrics["starting_equity"] = InitialCapital

\* a finished run with slippage, a close inside the loop and a forced close
C1_Witness ==
  /\ bt_pc = "done"
  /\ slippage # 0
  /\ Len(trades) >= 2
  /\ position # 0
  /\ trades[Len(trades)].exit = prices[Len(prices)].close

\* C2: after every on_trade_close, whatever state the strategy was
\* constructed with, min_threshold <= threshold <= max_threshold.
C2_ThresholdWithinBounds ==
  (as_pc = "ready" /\ as_trades > 0) =>
    /\ FracLe(state.min_threshold, state.threshold)
    /\ FracLe(state.threshold, state.max_threshold)

ResultHashes == {results[i].hash : i \in DOMAIN results} \ {NullHash}

\* C3: consolidate_results reports consistent exactly when the results carry
\* at most one distinct non-null hash and none has a non-success status.
C3_ConsistentIffOneHash ==
  dv_pc = "consolidated" =>
    (summary.verdict.consistent <=>
       /\ Cardinality(ResultHashes) <= 1
       /\ \A i \in DOMAIN results : results[i].status = "success")

InputNodeId(i) == NodeId(inputs[i], i - 1)
InputRaises(i) == inputs[i].outcome = Raises

\* C4: a raising callable becomes one error result with a null hash, every
\* sibling runs to completion, and the batch returns one result per input
\* without raising.
C4_FailureIsolated ==
  /\ dv_pc # "raised"
  /\ dv_pc \in {"returned", "consolidated"} =>
       /\ Len(results) = Len(inputs)
       /\ \A i \in DOMAIN futures : futures[i] = "collected"
       /\ \A i \in DOMAIN inputs :
            Cardinality({j \in DOMAIN results :
                           /\ results[j].node_id = InputNodeId(i)
                           /\ (results[j].status = "error") = InputRaises(i)
                           /\ (results[j].status = "success") = ~InputRaises(i)
                           /\ (results[j].hash = NullHash) = InputRaises(i)})
            = Cardinality({k \in DOMAIN inputs :
                             /\ InputNodeId(k) = InputNodeId(i)
                             /\ InputRaises(k) = InputRaises(i)})

\* a returned batch of three nodes of which one raised and one succeeded
C4_Witness ==
  /\ dv_pc = "returned"
  /\ Len(inputs) = 3
  /\ Len(results) = 3
  /\ \E i, j \in DOMAIN results :
       results[i].status = "error" /\ results[j].status = "success"

\* what the claim calls the consolidated verdict
VerdictOf(v) ==
  [consistent |-> v.consistent, failed |-> Range(v.failed_nodes),
   mismatched |-> Range(v.mismatched_nodes), unique |-> v.unique_hashes]
\* the results as they arrive when the nodes complete in input order
InputOrderResults ==
  [i \in DOMAIN inputs |-> CollectResult(InputNodeId(i), inputs[i].outcome).result]

\* C5: the consolidated verdict of a batch is the same for every completion
\* order, whether or not the node ids are distinct.
C5_VerdictOrderIndependent ==
  dv_pc = "consolidated" =>
    VerdictOf(summary.verdict) = VerdictOf(evaluate(InputOrderResults))

InsideAppend == {t \in DOMAIN w_pc : w_pc[t] # "idle"}

\* C6: concurrent appends are mutually exclusive over open-write-close, and
\* no line of the file is interleaved with a piece of another line.
C6_AppendsSerialized ==
  /\ Cardinality(InsideAppend) <= 1
  /\ \A i \in DOMAIN audit_file :
       (audit_file[i].part = "head" /\ i < Len(audit_file)) =>
         /\ audit_file[i + 1].part = "tail"
         /\ audit_file[i + 1].by = audit_file[i].by
         /\ audit_file[i + 1].call = audit_file[i].call

\* C7: the log is append-only: no step rewrites or truncates what the file
\* holds, and a call that returns has added exactly one line end, its own,
\* at the end of the file.
C7_AppendOnly ==
  [][/\ IsPrefix(audit_file, audit_file')
     /\ w_returned' = w_returned + 1 =>
          /\ Newlines(audit_file') = Newlines(audit_file) + 1
          /\ EndsLine(audit_file'[Len(audit_file')])
          /\ Newlines(audit_file') = w_returned']_vars

\* two calls have returned, by different threads, the second after the first
C7_Witness ==
  /\ w_returned >= 2
  /\ Len(audit_file) >= 2
  /\ audit_file[1].by # audit_file[Len(audit_file)].by

\* the signature the specification asks of an entry under a key
HasValidHmac(entry, key) ==
  /\ DictHas(entry, "hmac")
  /\ DictGet(entry, "hmac") = HmacSha256(key, CanonicalJson(DictDel(entry, "hmac")))

C9_WrittenLineVerifies ==
  (/\ sg_pc = "verified"
   /\ tampered = None
   /\ ResolveKey(written.hmac_key, env_key) = report.key) =>
    /\ report.log.outcomes[1] = "verified"
    /\ report.stream.outcomes[1] = "verified"

Unset(key) == key = None \/ key = ""

\* C10: the entry is signed with the explicit hmac_key when one is given,
\* else with the process-wide fallback; when neither resolves the entry is
\* still appended, with hmac present and null.
C10_KeyResolution ==
  sg_pc = "written" =>
    LET entry == log_lines[1].entry
        h == DictGet(entry, "hmac")
    IN  /\ Len(log_lines) = 1
        /\ DictHas(entry, "hmac")
        /\ ~Unset(written.hmac_key) => (IsDigest(h) /\ h.v[1] = written.hmac_key)
        /\ (Unset(written.hmac_key) /\ ~Unset(env_key)) =>
             (IsDigest(h) /\ h.v[1] = env_key)
        /\ (Unset(written.hmac_key) /\ Unset(env_key)) => h = NullValue

\* an append with no key argument and no fallback
C10_Witness ==
  /\ sg_pc = "written"
  /\ Unset(written.hmac_key)
  /\ Unset(env_key)
  /\ Len(log_lines) = 1
  /\ DictHas(log_lines[1].entry, "hmac")
  /\ DictGet(log_lines[1].entry, "hmac") = NullValue


\* the outcome the specification gives a non-blank line under a key
ExpectedOutcome(line, key) ==
  IF line.kind = "junk" THEN "INVALID_JSON"
  ELSE IF line.kind = "scalar" THEN "MISSING_HMAC"
  ELSE IF ~DictHas(line.entry, "hmac") THEN "MISSING_HMAC"
  ELSE IF DictGet(line.entry, "hmac") = NullValue THEN "MISSING_HMAC"
  ELSE IF HasValidHmac(line.entry, key) THEN "verified"
  ELSE "HMAC_MISMATCH"
NonBlank == IndexesWhere(log_lines, LAMBDA i : log_lines[i].kind # "blank")
ExpectedFailed ==
  IndexesWhere(NonBlank,
               LAMBDA j : ExpectedOutcome(log_lines[NonBlank[j]], report.key) # "verified")

\* C11: verification of an existing file, by either entry point, raises
\* nothing and gives every non-blank line exactly one outcome: verified,
\* INVALID_JSON for a line that is no JSON, MISSING_HMAC for a parsed line
\* without an hmac value, HMAC_MISMATCH otherwise; total counts the
\* non-blank lines and equals verified plus failed, and there is one failure
\* record, with that reason, per failed line.
C11_LinesClassified ==
  (sg_pc = "checked" /\ log_exists) =>
    LET r == report.result
    IN  /\ ~r.raised
        /\ r.total = Len(NonBlank)
        /\ r.total = r.verified + r.failed
        /\ Len(r.failures) = r.failed
        /\ r.failed = Len(ExpectedFailed)
        /\ \A j \in DOMAIN r.failures :
             j \in DOMAIN ExpectedFailed =>
               r.failures[j].reason =
                 ExpectedOutcome(log_lines[NonBlank[ExpectedFailed[j]]], report.key)

\* C12: verifying a path that does not exist returns total 0, verified 0,
\* failed 0 and no failure record, and raises nothing, for verify_audit_log
\* and for verify_audit_file alike.
C12_MissingFileIsEmpty ==
  (sg_pc = "checked" /\ ~log_exists) =>
    /\ ~report.result.raised
    /\ report.result.total = 0
    /\ report.result.verified = 0
    /\ report.result.failed = 0
    /\ report.result.failures = <<>>


RECURSIVE ReplayBars(_, _)
\* the loop of run over the bars from i on, with nothing attached that could
\* fail: st holds equity, position, entry_price, trades and equity_curve
ReplayBars(i, st) ==
  IF i > Len(prices) THEN st
  ELSE LET bar == prices[i]
           signal == signals[i]
           closing == st.position # 0 /\ signal # st.position
           trade == Trade(i - 1, st.position, st.entry_price, bar.open, slippage)
           eq == IF closing THEN st.equity + trade.pnl ELSE st.equity
           pos == IF closing THEN 0 ELSE st.position
           opening == pos = 0 /\ signal # 0
       IN  ReplayBars(i + 1,
                      [equity |-> eq,
                       position |-> IF opening THEN signal ELSE pos,
                       entry_price |-> IF opening THEN bar.open ELSE st.entry_price,
                       trades |-> IF closing THEN Append(st.trades, trade) ELSE st.trades,
                       equity_curve |-> Append(st.equity_curve, eq)])

\* the result of the run over the same bars and signals with no failing hook
ReplayResult ==
  LET st == ReplayBars(1, [equity |-> InitialCapital, position |-> 0,
                           entry_price |-> 0, trades |-> <<>>, equity_curve |-> <<>>])
      forced == st.position # 0
      trade == Trade(Len(prices) - 1, st.position, st.entry_price,
                     prices[Len(prices)].close, slippage)
      eq == IF forced THEN st.equity + trade.pnl ELSE st.equity
      tr == IF forced THEN Append(st.trades, trade) ELSE st.trades
      curve == IF forced THEN [st.equity_curve EXCEPT ![Len(st.equity_curve)] = eq]
               ELSE st.equity_curve
      m == [k \in {"starting_equity", "ending_equity", "net_return"} |->
              IF k = "starting_equity" THEN InitialCapital
              ELSE IF k = "ending_equity" THEN eq
              ELSE FracSub(Frac(eq, InitialCapital), One)]
  IN  [trades |-> tr, equity_curve |-> curve, metrics |-> summarize(tr, curve, m)]

HookCalls == (GuardedCalls \cup BareCalls) \ {"save_run", "append_signed_audit"}

\* C13: no exception of a hook (on_trade_close, on_session_end,
\* observe_trade, end_episode, finalize, record_equity, log_update) leaves
\* run, and the result of a run in which hooks failed has the trades, the
\* equity curve and the metrics of the run in which none failed.
C13_HooksNeverAbort ==
  /\ bt_raised \notin HookCalls
  /\ bt_pc = "done" =>
       [trades |-> trades, equity_curve |-> equity_curve, metrics |-> metrics]
         = ReplayResult

HasDataError ==
  \/ \E i \in DOMAIN prices : ~BarIsValid(prices[i])
  \/ \E i \in DOMAIN signals : signals[i] \notin {-1, 0, 1}

\* C14: a bar without open or close, or a signal outside {-1, 0, 1}, makes
\* run raise to the caller: for the offending bar no trade is recorded, no
\* equity sample appended and no close hook called; no result is returned
\* and no end-of-run side effect happens.
C14_DataErrorAborts ==
  HasDataError =>
    /\ bt_pc = "raised"
    /\ bt_raised = "ValueError"
    /\ Len(equity_curve) = Len(prices) - 1
    /\ \A i \in DOMAIN trades : trades[i].index < Len(prices) - 1
    /\ notified = Len(trades)
    /\ metrics = EmptyMap
    /\ effects = NoEffects

\* an out-of-range signal on a bar that would otherwise have closed a trade
C14_Witness ==
  /\ bt_pc = "raised"
  /\ bt_raised = "ValueError"
  /\ signals # <<>>
  /\ signals[Len(signals)] = 2
  /\ position # 0
  /\ Len(trades) >= 1

\* C15: a failure of save_run or of the audit append does not abort run, and
\* when an audit log is given and the append succeeds the run has appended
\* exactly one entry, which carries datastore_path exactly when a datastore
\* artifact was written.
C15_SideEffectsBestEffort ==
  /\ bt_raised # "save_run"
  /\ (bt_pc = "done" /\ effects.args.audit /\ "append_signed_audit" \notin caught) =>
       /\ Len(effects.audit_entries) = 1
       /\ effects.audit_entries[1].datastore_path = effects.saved
  /\ (bt_pc = "done" /\ ~effects.args.audit) => effects.audit_entries = <<>>


\* the previous call of summarize() saw the result as it is now
ResultUnchangedSinceSummarize ==
  /\ summaries # <<>>
  /\ summaries[Len(summaries)].after = metrics
  /\ summaries[Len(summaries)].trades = trades
  /\ summaries[Len(summaries)].equity_curve = equity_curve

\* C16: a call of summarize() leaves the trade list and the equity curve as
\* they were, and a call on a result unchanged since the previous call
\* yields the metrics that call yielded.
C16_SummarizeIdempotent ==
  [][Len(summaries') = Len(summaries) + 1 =>
       /\ trades' = trades
       /\ equity_curve' = equity_curve
       /\ ResultUnchangedSinceSummarize =>
            (metrics' = metrics /\ DOMAIN metrics' = DOMAIN metrics)]_vars

\* two calls in a row on a seeded result that holds a trade and two samples
C16_Witness ==
  /\ Len(summaries) = 2
  /\ summaries[2].before = summaries[1].after
  /\ summaries[2].trades = summaries[1].trades
  /\ summaries[2].equity_curve = summaries[1].equity_curve
  /\ summaries[1].trades # <<>>
  /\ Len(summaries[1].equity_curve) = 2
  /\ summaries[1].before # EmptyMap

\* the value of a metric as the trades and the equity curve determine it
ComputedMetric(tr, curve, k) ==
  LET won == {i \in DOMAIN tr : tr[i].pnl > 0}
  IN  CASE k = "total_trades" -> Len(tr)
        [] k = "wins" -> Cardinality(won)
        [] k = "losses" -> Len(tr) - Cardinality(won)
        [] k = "win_rate" -> Frac(Cardinality(won), IF tr = <<>> THEN 1 ELSE Len(tr))
        [] k = "ending_equity" -> curve[Len(curve)]
        [] k = "max_drawdown" -> FracAbs(MaxDrawdown(Tail(curve), curve[1], Zero))
        [] k = "sharpe_ratio" -> Returns(Tail(curve), curve[1])
        [] OTHER -> IF tr = <<>> THEN Zero
                    ELSE Frac(SumSeq([i \in DOMAIN tr |-> tr[i].pnl]), Len(tr))

\* C17: summarize() changes no metric that was in the map before the call,
\* whoever put it there, and every metric it inserts is the value computed
\* from the trades and the equity curve at the time of the call.
C17_InsertOnlyIfAbsent ==
  \A i \in DOMAIN summaries :
    LET call == summaries[i]
    IN  /\ \A k \in DOMAIN call.before :
             k \in DOMAIN call.after /\ call.after[k] = call.before[k]
        /\ \A k \in (DOMAIN call.after) \ (DOMAIN call.before) :
             call.after[k] = ComputedMetric(call.trades, call.equity_curve, k)

\* a call on a result with seeded wins, then a trade added and a second call
C17_Witness ==
  /\ Len(summaries) = 2
  /\ "wins" \in DOMAIN summaries[1].before
  /\ "total_trades" \notin DOMAIN summaries[1].before
  /\ Len(summaries[2].trades) > Len(summaries[1].trades)
  /\ summaries[2].after["total_trades"] # Len(summaries[2].trades)


\* what _persist_state writes for the state the first instance is in
PersistedNow == persistence_file = _persist_state(state, TRUE, persistence_file)

\* C18: a state persisted and then loaded by a new AdaptiveStrategy on the
\* same path, with no trade in between, gives the new instance the
\* threshold, learning_rate, min_threshold, max_threshold and history of
\* the old one, whatever arguments it was constructed with.
C18_PersistLoadRoundTrip ==
  (as_pc \in {"reloaded", "reload raised"} /\ PersistedNow) =>
    /\ as_pc = "reloaded"
    /\ reloaded.state = state

\* a reload after trades, by an instance whose arguments differ from the
\* state it ends up with
C18_Witness ==
  /\ as_pc = "reloaded"
  /\ PersistedNow
  /\ state.history # <<>>
  /\ reloaded.state = state
  /\ reloaded.args.threshold # state.threshold
  /\ reloaded.args.learning_rate # state.learning_rate

\* the file is text that is no JSON, or JSON of the wrong shape or type
IsCorruptFile(file) ==
  \/ file.kind \in {"corrupt", "scalar"}
  \/ /\ file.kind = "json"
     /\ \/ \E k \in DOMAIN file.data \ {"history"} : file.data[k] = BadValue
        \/ /\ "history" \in DOMAIN file.data
           /\ ~(file.data["history"].list /\ file.data["history"].floats)

\* C19: constructing an AdaptiveStrategy on a corrupt persistence file raises
\* nothing and leaves every field at the value the constructor was given.
C19_CorruptFileIgnored ==
  (/\ as_pc \in {"ready", "load raised"}
   /\ persistence_path
   /\ IsCorruptFile(persistence_file)) =>
    /\ as_pc = "ready"
    /\ state = as_args


\* a state or replay file that is missing, that is no JSON, or whose JSON
\* has a value of the wrong shape or type
IsCorruptRlFile(file) ==
  \/ file.kind # "json"
  \/ \E k \in DOMAIN file.data :
       \/ file.data[k] = BadValue
       \/ k \in {"memory", "weights"} /\
            (~file.data[k].iterable \/ GoodPrefix(file.data[k].items) # file.data[k].items)

\* C20: an RLAdaptiveOptimizer or RLContinuousAgent constructed over a
\* missing or corrupt state file has its learning rate, epsilon, gamma,
\* weights and memory at the constructor's defaults, and over a missing or
\* corrupt replay file an empty replay buffer: nothing read before the load
\* failed stays in the component.
C20_RlLoadAllOrNothing ==
  rl_pc = "constructed" =>
    /\ (rl_kind = "RLAdaptiveOptimizer"
        /\ IsCorruptRlFile(rl_files.state)) =>
         rl_state = OptimizerDefaults
    /\ (rl_kind = "RLContinuousAgent"
        /\ IsCorruptRlFile(rl_files.state)) =>
         /\ rl_state.epsilon = AgentDefaults.epsilon
         /\ rl_state.weights = AgentDefaults.weights
         /\ rl_state.optimizer_epsilon = AgentDefaults.optimizer_epsilon
         /\ rl_state.optimizer_weights = AgentDefaults.optimizer_weights
    /\ (rl_kind = "RLContinuousAgent"
        /\ (rl_files.replay.kind # "json"
            \/ GoodPrefix(rl_files.replay.data.items) # rl_files.replay.data.items)) =>
         rl_state.replay_buffer = <<>>

\* C21: save_state followed by the construction of a new RLAdaptiveOptimizer
\* with the same arguments on the same memory_path restores the saved
\* learning rate, epsilon and gamma and the whole memory, sample by sample
\* in the same order.
C21_SaveLoadRoundTrip ==
  (rl_kind = "RLAdaptiveOptimizer" /\ rl_trace.op = "reload") =>
    /\ rl_state.learning_rate = rl_trace.saved.learning_rate
    /\ rl_state.epsilon = rl_trace.saved.epsilon
    /\ rl_state.gamma = rl_trace.saved.gamma
    /\ rl_state.memory = rl_trace.saved.memory

\* C22: train(batch_size) runs min(batch_size, len(replay_buffer)) train
\* steps, on the batch_size most recent experiences in their order, reports
\* that number as updates and leaves the replay buffer as it was.
C22_TrainsOnMostRecent ==
  (rl_kind = "RLContinuousAgent" /\ rl_trace.op = "train") =>
    LET n == IF rl_trace.batch_size < Len(rl_trace.buffer)
             THEN rl_trace.batch_size ELSE Len(rl_trace.buffer)
    IN  /\ Len(rl_trace.steps) = n
        /\ rl_trace.steps = SubSeq(rl_trace.buffer, Len(rl_trace.buffer) - n + 1,
                                   Len(rl_trace.buffer))
        /\ rl_trace.report.updates = n
        /\ rl_state.replay_buffer = rl_trace.buffer

\* C25: after every update the learning rate applied to the base optimizer
\* is current*smoothing + target*(1-smoothing) with the target clamped to
\* [min_learning_rate, max_learning_rate], and it lies within
\* [min_learning_rate, max_learning_rate].
C25_LearningRateBounded ==
  (rl_kind = "RLAdaptiveOptimizer" /\ rl_trace.op = "update") =>
    /\ FracLe(MinLearningRate, rl_trace.target)
    /\ FracLe(rl_trace.target, MaxLearningRate)
    /\ rl_state.learning_rate = _apply_smoothing(rl_trace.current, rl_trace.target)
    /\ FracLe(MinLearningRate, rl_state.learning_rate)
    /\ FracLe(rl_state.learning_rate, MaxLearningRate)

NodeEntries == SelectSeq(dv_audit, LAMBDA e : e.event = "validation_node_result")
\* at every moment the node-result entries of the log are the results
\* collected so far, one per result and in the same order
NodeEntriesFollowResults ==
  [i \in DOMAIN NodeEntries |-> NodeEntries[i].node_id]
    = [i \in DOMAIN results |-> results[i].node_id]
\* init, the node results, validation_complete: nothing else
LogReadsInitNodesComplete ==
  /\ Len(dv_audit) = Len(results) + 2
  /\ dv_audit[1].event = "init"
  /\ \A i \in 2..(Len(dv_audit) - 1) : dv_audit[i].event = "validation_node_result"
  /\ dv_audit[Len(dv_audit)].event = "validation_complete"

\* C23 as stated: each node's validation_node_result entry is appended when
\* the node's result is collected, before the next node is collected and
\* before the batch returns, and the log of one batch followed by
\* consolidate_results reads one init entry, one node-result entry per node
\* in the order of the results, and one validation_complete entry last.
C23_LogReadsInOrder ==
  /\ NodeEntriesFollowResults
  /\ dv_pc = "consolidated" => LogReadsInitNodesComplete

\* C23 amended: the same for a batch of at least one input; an empty batch
\* writes no init entry, its log reads validation_complete alone.
C23_LogReadsInOrderNonEmpty ==
  /\ NodeEntriesFollowResults
  /\ (dv_pc = "consolidated" /\ inputs # <<>>) => LogReadsInitNodesComplete
  /\ (dv_pc = "consolidated" /\ inputs = <<>>) =>
       (Len(dv_audit) = 1 /\ dv_audit[1].event = "validation_complete")

\* two of three nodes are collected and logged, the third is still running
C23_Witness ==
  /\ dv_pc = "collecting"
  /\ Len(inputs) = 3
  /\ Len(results) = 2
  /\ Len(NodeEntries) = 2
  /\ Running # {}

HashBearing == {results[i].node_id : i \in {j \in DOMAIN results : results[j].hash # NullHash}}

\* C24: when consolidate_results reports consistent=False, mismatched_nodes
\* lists every node id that carries a hash; when it reports consistent=True,
\* mismatched_nodes is empty.
C24_MismatchedListsAllHashed ==
  dv_pc = "consolidated" =>
    /\ ~summary.verdict.consistent =>
         Range(summary.verdict.mismatched_nodes) = HashBearing
    /\ summary.verdict.consistent => summary.verdict.mismatched_nodes = <<>>

\* C26: on a bar whose signal differs from the open position exactly one
\* trade {index, direction, entry, exit = bar.open, pnl = (open - entry) *
\* direction - slippage} is recorded, equity grows by that pnl and the
\* position is Flat before the open rule: a reversal opens the opposite
\* position at the same bar's open.  A signal equal to the open position
\* records no trade and changes neither equity nor entry price.
C26_CloseBeforeOpen ==
  [][(bt_pc = "loop" /\ bt_pc' = "loop" /\ Len(prices') = Len(prices) + 1) =>
       LET bar == prices'[Len(prices')]
           signal == signals'[Len(signals')]
           pnl == (bar.open - entry_price) * position - slippage
       IN  /\ (position # 0 /\ signal # position) =>
                /\ trades' = Append(trades, [index |-> Len(prices),
                                             direction |-> position,
                                             entry |-> entry_price,
                                             exit |-> bar.open, pnl |-> pnl])
                /\ equity' = equity + pnl
                /\ position' = signal
                /\ signal # 0 => entry_price' = bar.open
           /\ (position # 0 /\ signal = position) =>
                /\ trades' = trades
                /\ equity' = equity
                /\ entry_price' = entry_price
                /\ position' = position]_vars

\* a reversal has just closed a position and opened the opposite one at the
\* same open price
C26_Witness ==
  /\ bt_pc = "loop"
  /\ trades # <<>>
  /\ trades[Len(trades)].index = Len(prices) - 1
  /\ position = -trades[Len(trades)].direction
  /\ entry_price = trades[Len(trades)].exit
  /\ slippage # 0

\* the pnl of every trade whose index is <= i
PnlUpTo(i) ==
  LET upto == SelectSeq(trades, LAMBDA t : t.index <= i)
  IN  SumSeq([j \in DOMAIN upto |-> upto[j].pnl])

\* C27: on return the equity curve has one sample per bar, and sample i is
\* initial_capital plus the pnl of every trade whose index is <= i: a
\* same-bar close is in that bar's sample, and a forced final close
\* overwrites the last sample.
C27_OneSamplePerBar ==
  bt_pc = "done" =>
    /\ Len(equity_curve) = Len(prices)
    /\ \A i \in DOMAIN equity_curve :
         equity_curve[i] = InitialCapital + PnlUpTo(i - 1)

\* a returned run of three bars with a close on the second bar and a forced
\* close that changed the last sample
C27_Witness ==
  /\ bt_pc = "done"
  /\ Len(prices) = 3
  /\ Len(trades) = 2
  /\ trades[1].index = 1
  /\ trades[2].index = 2
  /\ trades[2].pnl # 0
  /\ equity_curve[3] # equity_curve[2]

RECURSIVE PositionsOpened(_, _)
\* how many times the open rule fired over the signals from i on, pos being
\* the position before bar i
PositionsOpened(i, pos) ==
  IF i > Len(signals) THEN 0
  ELSE LET flat == IF pos # 0 /\ signals[i] # pos THEN 0 ELSE pos
           opens == flat = 0 /\ signals[i] # 0
       IN  (IF opens THEN 1 ELSE 0)
             + PositionsOpened(i + 1, IF opens THEN signals[i] ELSE flat)

\* C28: a position still open after the last bar is closed at the last
\* bar's close price: the run has as many trades as positions it opened, and
\* the forced trade's pnl is in ending_equity and in the last sample.
C28_ForcedFinalClose ==
  bt_pc = "done" =>
    /\ Len(trades) = PositionsOpened(1, 0)
    /\ position # 0 =>
         LET forced == trades[Len(trades)]
         IN  /\ forced.index = Len(prices) - 1
             /\ forced.direction = position
             /\ forced.entry = entry_price
             /\ forced.exit = prices[Len(prices)].close
             /\ forced.pnl = (forced.exit - forced.entry) * position - slippage
             /\ metrics["ending_equity"] = InitialCapital + SumSeq(TradePnls)
             /\ equity_curve[Len(equity_curve)] = metrics["ending_equity"]

\* a returned run whose only trade is the forced close of a position held
\* over two bars
C28_Witness ==
  /\ bt_pc = "done"
  /\ position # 0
  /\ Len(trades) = 1
  /\ Len(prices) >= 2
  /\ trades[1].pnl # 0

\* C29: on_trade_close moves the threshold by the sign of the pnl, with
\* adjustment = learning_rate * |pnl| / max(|entry|, eps): a winning trade
\* never raises it (new = max(min_threshold, threshold * (1 - adjustment))),
\* a losing trade never lowers it (new = min(max_threshold, threshold *
\* (1 + adjustment))), a zero-pnl trade leaves it as it is.
C29_ThresholdFollowsPnlSign ==
  [][(as_pc = "ready" /\ as_trades' = as_trades + 1) =>
       LET pnl == state'.history[Len(state'.history)]
       IN  /\ \E entry \in CloseEntries :
                state'.threshold = AdaptThreshold(state, pnl, entry)
           /\ pnl > 0 => FracLe(state'.threshold, state.threshold)
           /\ pnl < 0 => FracLe(state.threshold, state'.threshold)
           /\ pnl = 0 => state'.threshold = state.threshold]_vars

\* the fields of the payload under these keys are written as they came
KeptAsSupplied(payload, entry, keys) ==
  \A i \in DOMAIN payload :
    payload[i][1] \in keys =>
      /\ DictHas(entry, payload[i][1])
      /\ DictGet(entry, payload[i][1]) = payload[i][2]
\* the session object holds what the payload's held, and the missing ones of
\* the writer's defaults
SessionFilledIn(payload, entry) ==
  LET given == IF DictHas(payload, "session") THEN DictGet(payload, "session").v
               ELSE <<>>
      session == DictGet(entry, "session").v
  IN  /\ \A i \in DOMAIN given :
           DictHas(session, given[i][1]) /\ DictGet(session, given[i][1]) = given[i][2]
      /\ \A i \in DOMAIN DefaultSessionInfo :
           ~DictHas(given, DefaultSessionInfo[i][1]) =>
              DictGet(session, DefaultSessionInfo[i][1]) = DefaultSessionInfo[i][2]
      /\ Range(DictKeys(session))
           = Range(DictKeys(given)) \cup Range(DictKeys(DefaultSessionInfo))
\* session_id comes from the argument when one is given, and without an
\* argument it is what the payload held
SessionIdFromArgument(payload, entry, session_id) ==
  /\ (session_id # None /\ session_id # "") =>
       DictGet(entry, "session_id") = Str(session_id)
  /\ session_id = None =>
       /\ DictHas(entry, "session_id") = DictHas(payload, "session_id")
       /\ DictHas(payload, "session_id") =>
            DictGet(entry, "session_id") = DictGet(payload, "session_id")
PayloadKeys == {SortedKeys[i] : i \in DOMAIN SortedKeys}

\* C30: append_signed_audit writes every payload field other than
\* session_id unchanged, keeps a ts already present, keeps each session
\* sub-field already present and fills in only the missing ones, and sets
\* session_id from the argument only when one is supplied.
C30_PayloadNeverOverwritten ==
  sg_pc = "written" =>
    LET entry == log_lines[1].entry
    IN  /\ KeptAsSupplied(written.payload, entry, PayloadKeys \ {"session_id", "session"})
        /\ SessionFilledIn(written.payload, entry)
        /\ SessionIdFromArgument(written.payload, entry, written.session_id)

C32_BufferWithinCapacity ==
  (rl_kind = "RLAdaptiveOptimizer" /\ rl_trace.op = "update") =>
    LET limits == rl_state.limits
        scaled == FracMul(Frac(limits.base_capacity, 1),
                          FracAdd(One, FracMin(rl_trace.volatility, Frac(2, 1))))
        raw == scaled[1] \div scaled[2]
    IN  /\ Len(rl_state.memory) <= rl_state.capacity
        /\ limits.min_capacity <= rl_state.capacity
        /\ rl_state.capacity <= limits.max_capacity
        /\ (limits.min_capacity <= raw /\ raw <= limits.max_capacity) =>
             rl_state.capacity = raw
        /\ raw < limits.min_capacity => rl_state.capacity = limits.min_capacity
        /\ raw > limits.max_capacity => rl_state.capacity = limits.max_capacity
\* a full memory took one more sample, and the capacity was cut at its maximum
C32_Witness ==
  /\ rl_kind = "RLAdaptiveOptimizer" /\ rl_trace.op = "update"
  /\ rl_state.steps = MaxUpdates
  /\ Len(rl_state.memory) = rl_state.capacity
  /\ rl_state.capacity = rl_state.limits.max_capacity
  /\ rl_state.capacity # rl_state.limits.base_capacity

\* C33: AdaptiveMemory is a FIFO for any decay: after an update the memory
\* holds the most recent samples in arrival order, the newest included, so
\* every sample that went was older than every sample that stayed.
C33_MemoryIsFifo ==
  (rl_kind = "RLAdaptiveOptimizer" /\ rl_trace.op = "update") =>
    LET arrived == Append(rl_trace.before, rl_trace.sample)
    IN  /\ rl_state.memory # <<>>
        /\ rl_state.memory = LastN(arrived, Len(rl_state.memory))

\* C34: RLAdaptiveOptimizer writes its state file exactly when its update
\* count reaches a multiple of 10 and on finalize(): after k updates the
\* updates have written it k \div 10 times, at the counts 10, 20, ..., so
\* without a finalize() that is every write; the file written by the tenth
\* update or by finalize() holds the current learning_rate, epsilon, gamma
\* and memory snapshot.
C34_SavedEveryTenAndOnFinalize ==
  (rl_kind = "RLAdaptiveOptimizer" /\ rl_pc = "constructed") =>
    LET writes == rl_files.writes
        by_update == SelectSeq(writes, LAMBDA w : w.by = "update")
        current == JsonFile([learning_rate |-> rl_state.learning_rate,
                             epsilon |-> rl_state.epsilon,
                             gamma |-> rl_state.gamma,
                             memory |-> JsonArray(rl_state.memory)])
    IN  /\ Len(by_update) = rl_state.steps \div 10
        /\ \A i \in DOMAIN by_update : by_update[i].steps = 10 * i
        /\ Finalizes(rl_files) = 0 => Len(writes) = rl_state.steps \div 10
        /\ writes = <<>> => rl_files.state = NoFile
        /\ (rl_trace.op = "update" /\ rl_state.steps % 10 = 0) => rl_files.state = current
        /\ rl_trace.op = "save" =>
             /\ rl_files.state = current
             /\ writes[Len(writes)].by = "finalize"
\* twenty-one updates after a finalize(): two writes by update()
C34_Witness ==
  /\ rl_kind = "RLAdaptiveOptimizer" /\ rl_pc = "constructed"
  /\ rl_state.steps = 21
  /\ Len(rl_files.writes) = 3
  /\ rl_files.writes[1].by = "finalize"
  /\ rl_files.writes[3] = [by |-> "update", steps |-> 20]

\* C35: for every max_buffer the replay buffer of an RLContinuousAgent holds
\* at most max_buffer experiences after construction and after
\* append_experience, and after an append it is the most recent max_buffer
\* of the experiences it held and the new one, in arrival order.
C35_ReplayBufferBounded ==
  (rl_kind = "RLContinuousAgent" /\ rl_pc = "constructed") =>
    /\ Len(rl_state.replay_buffer) <= rl_args.max_buffer
    /\ rl_trace.op = "append" =>
         \E sample \in [state : Features, reward : Rewards] :
           rl_state.replay_buffer
             = LastN(Append(rl_trace.before, sample), rl_args.max_buffer)

\* C36: end_episode() trains, then rewrites the state file and the replay
\* file wholesale (each holds exactly the agent's values after the training,
\* whatever it held before), then adds exactly one continuous_update entry
\* carrying the update count when the training made an update and an audit
\* log is configured, and no entry otherwise; the files are rewritten in
\* both cases.
C36_EndEpisodeSavesThenAudits ==
  (rl_kind = "RLContinuousAgent" /\ rl_trace.op = "end_episode") =>
    LET before == rl_trace.files
        updates == rl_trace.report.updates
        added == SubSeq(rl_files.audit, Len(before.audit) + 1, Len(rl_files.audit))
    IN  /\ updates = (IF Len(rl_state.replay_buffer) < DefaultBatchSize
                      THEN Len(rl_state.replay_buffer) ELSE DefaultBatchSize)
        /\ rl_files.state = JsonFile([epsilon |-> rl_state.optimizer_epsilon,
                                      weights |-> rl_state.optimizer_weights])
        /\ rl_files.replay = JsonFile(JsonArray(rl_state.replay_buffer))
        /\ Len(rl_files.writes) = Len(before.writes) + 2
        /\ SubSeq(rl_files.audit, 1, Len(before.audit)) = before.audit
        /\ Len(added) <= 1
        /\ (rl_trace.audit /\ rl_args.audit_log /\ updates > 0) =>
             /\ Len(added) = 1
             /\ added[1].event = "continuous_update"
             /\ added[1].updates = updates
        /\ updates = 0 => added = <<>>
        /\ ~rl_args.audit_log => rl_files.audit = <<>>
\* an episode that trained, over files written by an earlier run
C36_Witness ==
  /\ rl_kind = "RLContinuousAgent" /\ rl_trace.op = "end_episode"
  /\ rl_trace.audit /\ rl_args.audit_log
  /\ rl_trace.report.updates > 1
  /\ rl_trace.files.state # NoFile /\ rl_trace.files.replay # NoFile
  /\ rl_files.state # rl_trace.files.state
  /\ Len(rl_files.audit) = 3

\* C37: run_validation_batch returns if and only if every submitted
\* callable returns or raises: while one of them hangs the batch has not
\* returned, and when all of them finish the batch eventually returns one
\* result per input.
BatchReturned == dv_pc \in {"returned", "consolidated"}
C37_ReturnsIffAllFinish ==
  /\ []((\E i \in DOMAIN inputs : inputs[i].outcome = Hangs) => ~BatchReturned)
  /\ [](BatchReturned => Len(results) = Len(inputs))
  /\ ((\A i \in DOMAIN inputs : inputs[i].outcome # Hangs) ~> BatchReturned)
C37_Witness ==
  /\ BatchReturned
  /\ Len(inputs) = MaxNodes
  /\ Len(results) = MaxNodes
  /\ \E i \in DOMAIN inputs : inputs[i].outcome = Raises
  /\ \E i \in DOMAIN inputs : inputs[i].outcome = "p1"

\* C38: after each bar the Backtester has processed its position is that
\* bar's signal; a position changes direction only through a close recorded
\* on the same bar, and a position opened on a bar has that bar's open as
\* its entry price, which it keeps while it is held.
C38_PositionFollowsSignal ==
  /\ []((bt_pc = "loop" /\ signals # <<>>) =>
          /\ position = signals[Len(signals)]
          /\ position \in {-1, 0, 1})
  /\ [][(bt_pc = "loop" /\ bt_pc' = "loop" /\ Len(prices') = Len(prices) + 1) =>
          /\ (position # 0 /\ position' # position) =>
               /\ Len(trades') = Len(trades) + 1
               /\ trades'[Len(trades')].direction = position
               /\ trades'[Len(trades')].index = Len(prices)
          /\ (position' # 0 /\ position' # position) =>
               entry_price' = prices'[Len(prices')].open
          /\ (position' # 0 /\ position' = position) =>
               /\ entry_price' = entry_price
               /\ trades' = trades]_vars
\* a long position flipped to a short one on a bar with another open
C38_Witness ==
  /\ bt_pc = "loop" /\ Len(prices) >= 2
  /\ position = -1
  /\ trades # <<>>
  /\ trades[Len(trades)].direction = 1
  /\ trades[Len(trades)].index = Len(prices) - 1
  /\ entry_price = prices[Len(prices)].open
  /\ trades[Len(trades)].entry # entry_price


\* the names of the hooks called for trade number k, in the order of the calls
HooksOf(k) ==
  LET ofTrade == SelectSeq(hook_calls,
                           LAMBDA c : c.trade = k /\ c.hook \in Range(CloseHookOrder))
  IN  [i \in 1..Len(ofTrade) |-> ofTrade[i].hook]
\* the number of strategy calls made when the hooks of trade k were called
BarsAtHooksOf(k) ==
  {hook_calls[i].bars : i \in {j \in DOMAIN hook_calls :
      hook_calls[j].trade = k /\ hook_calls[j].hook \in Range(CloseHookOrder)}}
\* the end-of-run hooks in the log, in the order of the calls
EndHooksRun ==
  LET atEnd == SelectSeq(hook_calls, LAMBDA c : c.hook \in Range(EndHookOrder))
  IN  [i \in 1..Len(atEnd) |-> atEnd[i].hook]

\* C39: every recorded trade, the forced one included, has had
\* strategy.on_trade_close, rl_agent.observe_trade and
\* adaptive_optimizer.observe_trade called once each in that order, once the
\* trade is appended and before the strategy sees the next bar; a run that
\* returns has called on_session_end, log_update, end_episode and finalize
\* once each in that order after the hooks of every trade
C39_CloseHooksOncePerTradeInOrder ==
  /\ \A k \in 1..Len(trades) :
       /\ HooksOf(k) = CloseHookOrder
       /\ BarsAtHooksOf(k) = {trades[k].index + 1}
  /\ \A i, j \in DOMAIN hook_calls :
       i < j => hook_calls[i].trade <= hook_calls[j].trade
  /\ bt_pc = "done" =>
       /\ EndHooksRun = EndHookOrder
       /\ \A i \in DOMAIN hook_calls :
            hook_calls[i].hook \in Range(EndHookOrder)
              <=> i > Len(hook_calls) - Len(EndHookOrder)

\* C40: with the tracker attached, the samples handed to record_equity are
\* the initial capital followed by the equity after each bar, one more than
\* the bars when run returns; a forced close changes equity_curve[-1] and
\* leaves the last recorded sample at the equity before it
C40_RecordsCapitalThenEveryBar ==
  /\ bt_pc = "loop" => recorded = <<InitialCapital>> \o equity_curve
  /\ bt_pc = "done" =>
       /\ Len(recorded) = Len(prices) + 1
       /\ recorded[1] = InitialCapital
       /\ \A i \in 1..(Len(prices) - 1) : recorded[i + 1] = equity_curve[i]
       /\ position = 0 /\ prices # <<>> =>
            recorded[Len(recorded)] = equity_curve[Len(equity_curve)]
       /\ position # 0 =>
            /\ Credit(recorded[Len(recorded)], trades[Len(trades)])
                 = equity_curve[Len(equity_curve)]
            /\ equity_curve[Len(equity_curve)] = equity
\* a run that returned after a forced close with a pnl other than zero: the
\* last recorded sample and equity_curve[-1] differ
C40_Witness ==
  /\ bt_pc = "done"
  /\ position # 0
  /\ Len(prices) >= 2
  /\ trades[Len(trades)].pnl # 0
  /\ recorded[Len(recorded)] # equity_curve[Len(equity_curve)]
  /\ Len(recorded) = Len(prices) + 1

====
